---- MODULE Spec2Model ----
(***************************************************************************)
(* A model of the crawling core of ODPC-RAG:                               *)
(*   - rag_crawler/url_utils.py    (normalize_url, url_to_filename,        *)
(*                                  URLQueue)                              *)
(*   - rag_crawler/rate_limiter.py (RateLimiter.wait)                      *)
(*   - rag_crawler/storage.py, change_detector.py (MarkdownStorage.save)   *)
(*   - rag_crawler/robots_parser.py, crawler.py, async_crawler.py          *)
(*   - crawler/crawler.py          (the checkpointing Crawler)             *)
(*                                                                         *)
(* Strings are sequences of one-character strings, so that lower(),        *)
(* rstrip(), endswith(), split() and re.sub() are computed and not         *)
(* assumed.  A URL is the 6-tuple urlparse() returns, as a record.         *)
(***************************************************************************)
EXTENDS Integers, Sequences, FiniteSets, TLC

VARIABLES
    \* ---- URLQueue shared by threads (url_utils.py) ----
    q_queue,      \* URLQueue._queue: sequence of [url, depth]
    q_seen,       \* URLQueue._seen: set of normalized URLs
    q_lock,       \* URLQueue._lock: 0 when free, else the holding thread
    q_pc,         \* per thread: position inside add / get / mark_seen
    q_call,       \* per thread: the call in progress [op, url, depth, norm, ret, n]
    q_log,        \* history: appends, mark_seens and gets, in the order they took effect
    q_calls,      \* number of calls started so far (bounded by MaxCalls)
    \* ---- RateLimiter called by one or several callers (rate_limiter.py) ----
    r_now,        \* the clock time.time() reads, in ticks
    r_default,    \* RateLimiter.default_delay
    r_delays,     \* RateLimiter._domain_delays: host -> delay, -1 where no override is set
    r_last,       \* RateLimiter._last_request: host -> time, 0 where absent (.get(domain, 0))
    r_lock,       \* RateLimiter._lock: 0 when free, else the holding caller
    r_callers,    \* the callers that exist
    r_pc,         \* per caller: position inside wait
    r_loc,        \* per caller: locals of wait [host, wait_time, wake, n]
    r_log,        \* history: the request times wait recorded, in order
    \* ---- MarkdownStorage and the output directory (storage.py) ----
    s_files,      \* output_dir/<name>.md: name -> [exists, text]
    s_tmp,        \* output_dir/<name>.md.tmp: name -> [exists, text]
    s_pc,         \* position inside save
    s_arg,        \* save's arguments and locals [url, body, force, name, hash, content]
    s_ret,        \* was_saved of the last save that returned (FALSE before the first)
    s_prev,       \* history: the target file as it was when the save in progress was called
    \* ---- the checkpointing Crawler (crawler/crawler.py) ----
    c_file,       \* crawler_state.json: [kind, visited, queue], kind none / torn / ok
    c_visited,    \* Crawler.visited
    c_q,          \* Crawler.q
    c_max,        \* Crawler.max_pages
    c_pc,         \* position of the process in crawl
    c_page,       \* crawl's local `page`
    c_after,      \* where save_state returns to: the loop, or the raise of a handler
    c_run,        \* the number of the process run (the crawler is started again after a stop)
    c_ever,       \* history: every URL that was in visited, over all runs
    c_found,      \* history: every URL that was put on the queue, over all runs
    c_disc,       \* history: c_found at the time the last checkpoint was written
    c_inflight,   \* history: the URL whose request was in flight when the interrupt came
    c_popped,     \* history: the URLs popped from q in this run
    \* ---- WebCrawler (rag_crawler/crawler.py); its URLQueue, RateLimiter and ----
    \* ---- MarkdownStorage are q_queue, q_seen, r_now, r_last and the s_ variables ----
    w_pc,         \* position of the crawler in crawl / _process_url
    w_item,       \* the (url, depth) that get returned
    w_robots,     \* RobotsChecker._cache for the host: unset / rules / none
    w_stats,      \* CrawlStats: pages_crawled, pages_saved, pages_skipped, pages_failed, len(errors)
    w_run,        \* the number of the run (a new crawler instance, the same output directory)
    w_first,      \* history: the failures, errors, robots cache and interrupt of the run before
    w_trace,      \* history: what _process_url did for the URL in w_item, in order
    w_requested,  \* history: the URLs session.get was called with in this run
    w_followed,   \* history: the URLs requested in this run because a response redirected to them
    w_answer,     \* history: what the robots.txt request of this run got: unasked / 200 / 404 / error
    w_reqs,       \* history: the times of the HTTP requests sent to the host in this run
    w_interrupted, \* history: a KeyboardInterrupt ended the crawl of this run
    w_raised,     \* history: the crawl of this run ended by raising the KeyboardInterrupt
    w_max_retries, \* config.max_retries, the total of the session's Retry
    \* ---- one page fetch by an HTTP backend: WebCrawler's session.get with its ----
    \* ---- Retry adapter, or Crawler._fetch_page ----
    h_backend,    \* "session" or "fetch_page"
    h_max,        \* max_retries
    h_script,     \* what the server answers to the 1st, 2nd, ... request for the URL
    h_sent,       \* the number of requests sent
    h_pc,         \* off / request / answer / done
    h_result,     \* [ret, failed]: what the caller gets, and whether the page is recorded as failed
    \* ---- LinkExtractor (link_extractor.py) ----
    l_file,       \* links.json: [ok, recs]; ok is FALSE when the file holds no JSON document
    l_all,        \* LinkExtractor.all_links
    l_pc,         \* off / new / loaded / ready
    l_n,          \* the number of save calls
    l_last,       \* history: the last call, [op, url, before]: before is all_links at the call
    \* ---- FileDownloader (file_downloader.py) ----
    d_disk,       \* downloads/: file name -> content ("none": no such file)
    d_downloaded, \* FileDownloader._downloaded: the URLs processed in this run
    d_files,      \* FileDownloader._downloaded_files: lower-case file names
    d_pc,         \* off / new / ready
    d_n,          \* the number of download_file calls of the run
    d_last,       \* history: the last call, [op, url, before, done, sent]
    \* ---- BrowserFetcher.fetch_many (browser_fetcher.py) ----
    f_k,          \* concurrency
    f_urls,       \* urls
    f_sem,        \* the value of the asyncio.Semaphore
    f_pc,         \* per task: ready / fetching / done
    f_fetched,    \* history: per task, the number of fetch calls for its URL
    f_res,        \* per task: the FetchResult it returned (result "none" before)
    f_ret,        \* [returned, raised, results]: how the fetch_many call ended
    \* ---- url_utils.py: the pure functions on URL strings ----
    n_u,          \* a URL
    n_v,          \* another URL
    n_out,        \* normalize_url(n_u), normalize_url of that, ...
    n_same,       \* is_same_domain(n_u, n_v): "unset" / "yes" / "no"
    \* ---- robots_parser.py: RobotsChecker ----
    p_cache,      \* _cache: per netloc as written in the URL, "unset" / "rules" / "none"
    p_reqs,       \* history: the robots.txt URLs requested, in order
    p_last,       \* history: the last call, [op, url, result]
    p_clears,     \* history: the number of clear_cache calls
    \* ---- file_downloader.py: FileDownloader.deduplicate_files ----
    g_disk,       \* downloads/: per file name, [content, ctime], content "none" when absent
    g_files,      \* _downloaded_files
    g_before,     \* history: downloads/ when the last pass began
    g_ret,        \* what the last pass returned (-1 before the first)
    g_pass,       \* history: the number of passes made
    g_errs,       \* the number of "Error deduplicating" lines the last pass logged
    \* ---- browser_fetcher.py: BrowserFetcher.fetch ----
    b_pc,         \* goto / idle / scroll_start / scroll / settle / content / done
    b_left,       \* _scroll_page: height - current, the pixels below the scroll target
    b_page,       \* the page: [height, growth, feed]: its scrollHeight after the load,
                  \* what the next scrolls add to it, how many more scrolls add (-1: all)
    b_result      \* how fetch ended: none / ok / timeout / noresponse / error / raised

qvars == <<q_queue, q_seen, q_lock, q_pc, q_call, q_log, q_calls>>
rvars == <<r_now, r_default, r_delays, r_last, r_lock, r_callers, r_pc, r_loc, r_log>>

svars == <<s_files, s_tmp, s_pc, s_arg, s_ret, s_prev>>

cvars == <<c_file, c_visited, c_q, c_max, c_pc, c_page, c_after, c_run,
           c_ever, c_found, c_disc, c_inflight, c_popped>>

wvars == <<w_pc, w_item, w_robots, w_stats, w_run, w_first, w_trace, w_requested,
           w_followed, w_answer, w_reqs, w_interrupted, w_raised, w_max_retries>>

hvars == <<h_backend, h_max, h_script, h_sent, h_pc, h_result>>

lvars == <<l_file, l_all, l_pc, l_n, l_last>>

dvars == <<d_disk, d_downloaded, d_files, d_pc, d_n, d_last>>

fvars == <<f_k, f_urls, f_sem, f_pc, f_fetched, f_res, f_ret>>

nvars == <<n_u, n_v, n_out, n_same>>

pvars == <<p_cache, p_reqs, p_last, p_clears>>

gvars == <<g_disk, g_files, g_before, g_ret, g_pass, g_errs>>

bvars == <<b_pc, b_left, b_page, b_result>>

vars == <<qvars, rvars, svars, cvars, wvars, hvars, lvars, dvars, fvars, nvars, pvars, gvars, bvars>>

\* what each component leaves alone
notq == <<rvars, svars, cvars, wvars, hvars, lvars, dvars, fvars, nvars, pvars, gvars, bvars>>
notr == <<qvars, svars, cvars, wvars, hvars, lvars, dvars, fvars, nvars, pvars, gvars, bvars>>
nots == <<qvars, rvars, cvars, wvars, hvars, lvars, dvars, fvars, nvars, pvars, gvars, bvars>>
notc == <<qvars, rvars, svars, wvars, hvars, lvars, dvars, fvars, nvars, pvars, gvars, bvars>>
noth == <<qvars, rvars, svars, cvars, wvars, lvars, dvars, fvars, nvars, pvars, gvars, bvars>>
notl == <<qvars, rvars, svars, cvars, wvars, hvars, dvars, fvars, nvars, pvars, gvars, bvars>>
notd == <<qvars, rvars, svars, cvars, wvars, hvars, lvars, fvars, nvars, pvars, gvars, bvars>>
notf == <<qvars, rvars, svars, cvars, wvars, hvars, lvars, dvars, nvars, pvars, gvars, bvars>>
notn == <<qvars, rvars, svars, cvars, wvars, hvars, lvars, dvars, fvars, pvars, gvars, bvars>>
notp == <<qvars, rvars, svars, cvars, wvars, hvars, lvars, dvars, fvars, nvars, gvars, bvars>>
notg == <<qvars, rvars, svars, cvars, wvars, hvars, lvars, dvars, fvars, nvars, pvars, bvars>>
notb == <<qvars, rvars, svars, cvars, wvars, hvars, lvars, dvars, fvars, nvars, pvars, gvars>>
\* what WebCrawler leaves alone of its queue and its rate limiter, and the other crawler
notw == <<q_lock, q_pc, q_call, q_log, q_calls,
          r_default, r_delays, r_lock, r_callers, r_pc, r_loc, r_log, cvars, hvars, lvars, dvars, fvars, nvars, pvars, gvars, bvars>>

-----------------------------------------------------------------------------
(* Bounds of the model *)

MaxCalls == 3
\* RateLimiter: the wait calls of a run, the largest delay, the ticks the clock runs
MaxWaits == 3
MaxDelay == 2
MaxTicks == 5
\* the checkpointing Crawler: the pages of the site, the process runs
SiteSize == 12
MaxRuns == 2
\* WebCrawler: config.max_retries, and the retries sent in one run
MaxFetchRetries == 2
MaxRunRetries == 3
\* WebCrawler: config.max_depth
MaxDepth == 1
\* the HTTP backends: the largest max_retries
MaxRetries == 3
\* normalize_url: the longest path, with its parameters, of an input URL
MaxTail == 4
\* fetch_many: the largest number of URLs and the largest concurrency
MaxUrls == 3
MaxConcurrency == 2
\* FileDownloader: the download_file calls of a run
MaxDownloads == 3
\* deduplicate_files: the latest st_ctime of a file of downloads/
MaxCtime == 3
\* RobotsChecker: the clear_cache calls and the robots.txt requests
MaxClears == 1
MaxRobotsReqs == 5
\* BrowserFetcher._scroll_page: the number of times a page with a finite feed grows
MaxFeed == 2
\* LinkExtractor: the save calls of a run
MaxSaves == 2

-----------------------------------------------------------------------------
(* Strings *)

\* str.lower() on one character (the upper-case letters the inputs use)
LowerChar(c) ==
    CASE c = "E" -> "e"
      [] c = "H" -> "h"
      [] c = "T" -> "t"
      [] c = "P" -> "p"
      [] c = "A" -> "a"
      [] OTHER -> c

\* str.lower()
LowerStr(s) == [i \in 1..Len(s) |-> LowerChar(s[i])]

\* str.endswith(suffix)
EndsWith(s, suffix) ==
    /\ Len(suffix) <= Len(s)
    /\ SubSeq(s, Len(s) - Len(suffix) + 1, Len(s)) = suffix

\* str.rstrip(c)
RECURSIVE RStrip(_, _)
RStrip(s, c) ==
    IF s # <<>> /\ s[Len(s)] = c THEN RStrip(SubSeq(s, 1, Len(s) - 1), c) ELSE s

\* the code point order of the characters the inputs use (Python's str comparison)
CharOrder == <<"#", "-", ".", "/", "0", "1", "2", "3", "4", "8", ":", "=", "?",
               "A", "E", "H", "P", "T", "_", "a", "b", "c", "e", "h", "p", "s",
               "t", "x", "y">>

Ord(c) == CHOOSE i \in 1..Len(CharOrder) : CharOrder[i] = c

\* s < t for Python strings
RECURSIVE StrLess(_, _)
StrLess(s, t) ==
    IF t = <<>> THEN FALSE
    ELSE IF s = <<>> THEN TRUE
    ELSE IF s[1] = t[1] THEN StrLess(Tail(s), Tail(t))
    ELSE Ord(s[1]) < Ord(t[1])

\* str.split(c)
RECURSIVE SplitOn(_, _)
SplitOn(s, c) ==
    IF s = <<>> THEN << <<>> >>
    ELSE LET rest == SplitOn(Tail(s), c)
         IN IF s[1] = c THEN << <<>> >> \o rest
            ELSE << <<s[1]>> \o rest[1] >> \o Tail(rest)

\* c.join(parts)
RECURSIVE Join(_, _)
Join(parts, c) ==
    IF parts = <<>> THEN <<>>
    ELSE IF Len(parts) = 1 THEN parts[1]
    ELSE parts[1] \o <<c>> \o Join(Tail(parts), c)

-----------------------------------------------------------------------------
(* url_utils.py: normalize_url *)

\* parse_qs groups the values by key and sorted() orders the keys, urlencode(doseq)
\* writes key=value for every value: a stable sort of the pairs by key
RECURSIVE InsertByKey(_, _)
InsertByKey(sorted, kv) ==
    IF sorted = <<>> THEN <<kv>>
    ELSE IF StrLess(kv[1], sorted[1][1]) THEN <<kv>> \o sorted
    ELSE <<sorted[1]>> \o InsertByKey(Tail(sorted), kv)

RECURSIVE SortQuery(_)
SortQuery(q) ==
    IF q = <<>> THEN <<>>
    ELSE InsertByKey(SortQuery(SubSeq(q, 1, Len(q) - 1)), q[Len(q)])

StrHttp == <<"h", "t", "t", "p">>
StrHttps == <<"h", "t", "t", "p", "s">>

NormalizeUrl(u) ==
    LET scheme == LowerStr(u.scheme)
        netloc0 == LowerStr(u.netloc)
        netloc == IF EndsWith(netloc0, <<":", "8", "0">>) /\ scheme = StrHttp
                    THEN SubSeq(netloc0, 1, Len(netloc0) - 3)
                  ELSE IF EndsWith(netloc0, <<":", "4", "4", "3">>) /\ scheme = StrHttps
                    THEN SubSeq(netloc0, 1, Len(netloc0) - 4)
                  ELSE netloc0
        path0 == IF u.path # <<"/">> /\ EndsWith(u.path, <<"/">>)
                   THEN RStrip(u.path, "/") ELSE u.path
        path == IF path0 = <<>> THEN <<"/">> ELSE path0
    IN [scheme |-> scheme, netloc |-> netloc, path |-> path,
        query |-> SortQuery(u.query), fragment |-> <<>>]

-----------------------------------------------------------------------------
(* The URLs of the model: what urlparse() gives for each *)

Url(scheme, netloc, path, query, fragment) ==
    [scheme |-> scheme, netloc |-> netloc, path |-> path,
     query |-> query, fragment |-> fragment]

HostEC == <<"e", ".", "c">>

\* http://e.c   (a base_url after CrawlerConfig strips the trailing slash)
UrlRoot == Url(StrHttp, HostEC, <<>>, <<>>, <<>>)
\* http://e.c/a
UrlA == Url(StrHttp, HostEC, <<"/", "a">>, <<>>, <<>>)
\* HTTP://E.c:80/a/#x   (same canonical URL as UrlA)
UrlAVariant == Url(<<"H", "T", "T", "P">>, <<"E", ".", "c", ":", "8", "0">>,
                   <<"/", "a", "/">>, <<>>, <<"x">>)
\* http://e.c/a/b
UrlAB == Url(StrHttp, HostEC, <<"/", "a", "/", "b">>, <<>>, <<>>)
\* http://e.c/a/b/c   (linked from /a/b only)
UrlABC == Url(StrHttp, HostEC, <<"/", "a", "/", "b", "/", "c">>, <<>>, <<>>)
\* http://e.c/a_b
UrlA_B == Url(StrHttp, HostEC, <<"/", "a", "_", "b">>, <<>>, <<>>)
\* http://e.c/p?y=2&x=1
UrlPyx == Url(StrHttp, HostEC, <<"/", "p">>, << <<<<"y">>, <<"2">>>>, <<<<"x">>, <<"1">>>> >>, <<>>)
\* http://e.c/p?x=1&y=2   (same canonical URL as UrlPyx)
UrlPxy == Url(StrHttp, HostEC, <<"/", "p">>, << <<<<"x">>, <<"1">>>>, <<<<"y">>, <<"2">>>> >>, <<>>)

\* http://e.c/login
UrlLogin == Url(StrHttp, HostEC, <<"/", "l", "o", "g", "i", "n">>, <<>>, <<>>)
\* http://e.c/a.pdf
UrlPdf == Url(StrHttp, HostEC, <<"/", "a", ".", "p", "d", "f">>, <<>>, <<>>)
\* http://e.c/a#/login   (same canonical URL as UrlA)
UrlALogin == Url(StrHttp, HostEC, <<"/", "a">>, <<>>, <<"/", "l", "o", "g", "i", "n">>)

-----------------------------------------------------------------------------
(* urllib.parse on strings: urlparse, parse_qs, urlencode, urlunparse.  The strings
   of the model hold letters, digits and the delimiters : / ? # ; = & . only, so
   that quoting changes no character. *)

\* str.find(c) + 1: the position of the first c, 0 when there is none
Find(s, c) ==
    LET at == {i \in 1..Len(s) : s[i] = c}
    IN IF at = {} THEN 0 ELSE CHOOSE i \in at : \A j \in at : i <= j

\* str.rfind(c) + 1
RFind(s, c) ==
    LET at == {i \in 1..Len(s) : s[i] = c}
    IN IF at = {} THEN 0 ELSE CHOOSE i \in at : \A j \in at : i >= j

\* sub in s
Contains(s, sub) ==
    \E i \in 0..(Len(s) - Len(sub)) : SubSeq(s, i + 1, i + Len(sub)) = sub

\* parse_qs(query, keep_blank_values=True), as the pairs in the order of the query
ParseQuery(qs) ==
    LET fields == SelectSeq(SplitOn(qs, "&"), LAMBDA f : f # <<>>)
        Pair(f) == IF Find(f, "=") = 0 THEN <<f, <<>>>>
                   ELSE <<SubSeq(f, 1, Find(f, "=") - 1), SubSeq(f, Find(f, "=") + 1, Len(f))>>
    IN [i \in 1..Len(fields) |-> Pair(fields[i])]

\* urlencode(pairs, doseq=True)
UrlEncode(pairs) ==
    Join([i \in 1..Len(pairs) |-> pairs[i][1] \o <<"=">> \o pairs[i][2]], "&")

\* the characters that end a scheme candidate (not in urllib's scheme_chars)
NotSchemeChars == {"/", "?", "#", ";", "=", "&", "_", ":"}

\* the schemes of the model that are in urllib's uses_params
UsesParams == {<<>>, StrHttp, StrHttps}

\* _splitparams: the parameters start at the first ";" of the last segment
SplitParams(scheme, netloc, rest, query, fragment) ==
    LET slash == RFind(rest, "/")
        semi == IF scheme \in UsesParams THEN Find(SubSeq(rest, slash + 1, Len(rest)), ";")
                ELSE 0
    IN [scheme |-> scheme, netloc |-> netloc,
        path |-> IF semi = 0 THEN rest ELSE SubSeq(rest, 1, slash + semi - 1),
        params |-> IF semi = 0 THEN <<>> ELSE SubSeq(rest, slash + semi + 1, Len(rest)),
        query |-> ParseQuery(query), fragment |-> fragment]

\* urlsplit: the query starts after the first "?"
SplitQuery(scheme, netloc, rest, fragment) ==
    IF Find(rest, "?") = 0 THEN SplitParams(scheme, netloc, rest, <<>>, fragment)
    ELSE SplitParams(scheme, netloc, SubSeq(rest, 1, Find(rest, "?") - 1),
                     SubSeq(rest, Find(rest, "?") + 1, Len(rest)), fragment)

\* urlsplit: the fragment starts after the first "#"
SplitFragment(scheme, netloc, rest) ==
    IF Find(rest, "#") = 0 THEN SplitQuery(scheme, netloc, rest, <<>>)
    ELSE SplitQuery(scheme, netloc, SubSeq(rest, 1, Find(rest, "#") - 1),
                    SubSeq(rest, Find(rest, "#") + 1, Len(rest)))

\* _splitnetloc: the netloc of "//netloc..." ends before the first of / ? #
NetlocEnd(rest) ==
    LET ends == {i \in 3..Len(rest) : rest[i] \in {"/", "?", "#"}}
    IN IF ends = {} THEN Len(rest) + 1 ELSE CHOOSE i \in ends : \A j \in ends : i <= j

SplitNetloc(scheme, rest) ==
    IF Len(rest) >= 2 /\ SubSeq(rest, 1, 2) = <<"/", "/">>
      THEN SplitFragment(scheme, SubSeq(rest, 3, NetlocEnd(rest) - 1),
                         SubSeq(rest, NetlocEnd(rest), Len(rest)))
      ELSE SplitFragment(scheme, <<>>, rest)

\* urlparse(url): urlsplit (the scheme, in lower case, ends at the first ":"), then
\* _splitparams on the path
UrlParse(s) ==
    IF Find(s, ":") > 1 /\ \A i \in 1..(Find(s, ":") - 1) : s[i] \notin NotSchemeChars
      THEN SplitNetloc(LowerStr(SubSeq(s, 1, Find(s, ":") - 1)),
                       SubSeq(s, Find(s, ":") + 1, Len(s)))
      ELSE SplitNetloc(<<>>, s)

\* urlunparse((scheme, netloc, path, params, urlencode(query), fragment))
UrlUnparse(u, params) ==
    LET url0 == IF params # <<>> THEN u.path \o <<";">> \o params ELSE u.path
        url1 == IF \/ u.netloc # <<>>
                   \/ /\ u.scheme \in {StrHttp, StrHttps}
                      /\ ~(Len(url0) >= 2 /\ SubSeq(url0, 1, 2) = <<"/", "/">>)
                  THEN <<"/", "/">> \o u.netloc
                       \o (IF url0 # <<>> /\ url0[1] # "/" THEN <<"/">> ELSE <<>>) \o url0
                  ELSE url0
        url2 == IF u.scheme # <<>> THEN u.scheme \o <<":">> \o url1 ELSE url1
        url3 == IF u.query # <<>> THEN url2 \o <<"?">> \o UrlEncode(u.query) ELSE url2
    IN IF u.fragment # <<>> THEN url3 \o <<"#">> \o u.fragment ELSE url3

\* the string of a URL of the model (it has no path parameters)
UrlString(u) == UrlUnparse(u, <<>>)

\* normalize_url, from string to string
NormalizeUrlString(s) == UrlUnparse(NormalizeUrl(UrlParse(s)), UrlParse(s).params)

\* get_url_extension
GetUrlExtension(u) ==
    IF Find(SubSeq(u.path, RFind(u.path, "/") + 1, Len(u.path)), ".") = 0 THEN <<>>
    ELSE <<".">> \o LowerStr(SubSeq(u.path, RFind(u.path, ".") + 1, Len(u.path)))

\* CrawlerConfig defaults: allowed_extensions and excluded_patterns
AllowedExtensions ==
    {<<".", "h", "t", "m", "l">>, <<".", "h", "t", "m">>, <<".", "p", "h", "p">>,
     <<".", "a", "s", "p">>, <<".", "a", "s", "p", "x">>, <<>>}
ExcludedPatterns ==
    {<<"/", "l", "o", "g", "i", "n">>, <<"/", "l", "o", "g", "o", "u", "t">>,
     <<"/", "s", "i", "g", "n", "i", "n">>, <<"/", "s", "i", "g", "n", "o", "u", "t">>,
     <<"/", "a", "d", "m", "i", "n">>, <<"/", "w", "p", "-", "a", "d", "m", "i", "n">>,
     <<"/", "c", "a", "r", "t">>, <<"/", "c", "h", "e", "c", "k", "o", "u", "t">>}

-----------------------------------------------------------------------------
(* url_utils.py: URLQueue, called from several threads *)

\* the orchestrator and one link-harvest task
Threads == {1, 2}

QueueUrls == {UrlA, UrlAVariant, UrlPyx}

NoCall == [op |-> "none", url |-> UrlRoot, depth |-> 0, norm |-> UrlRoot,
           ret |-> "unset", n |-> 0]

QInit ==
    /\ q_queue = <<>>
    /\ q_seen = {}
    /\ q_lock = 0
    /\ q_pc = [t \in Threads |-> "idle"]
    /\ q_call = [t \in Threads |-> NoCall]
    /\ q_log = <<>>
    /\ q_calls = 0

\* `with self._lock:` entered
LockFreeAcquire(t) == q_lock' = t
LockAcquire(t) == q_lock = 0 /\ q_lock' = t

\* a thread calls add(url, depth): normalize_url runs before the lock is taken
QCallAdd(t) ==
    /\ q_pc[t] = "idle" /\ q_calls < MaxCalls
    /\ \E u \in QueueUrls :
          q_call' = [q_call EXCEPT ![t] =
                       [op |-> "add", url |-> u, depth |-> q_calls, norm |-> NormalizeUrl(u),
                        ret |-> "unset", n |-> q_calls + 1]]
    /\ q_calls' = q_calls + 1
    /\ q_pc' = [q_pc EXCEPT ![t] = "acquire"]
    /\ UNCHANGED <<q_queue, q_seen, q_lock, q_log>>
    /\ UNCHANGED notq

QCallMarkSeen(t) ==
    /\ q_pc[t] = "idle" /\ q_calls < MaxCalls
    /\ \E u \in QueueUrls :
          q_call' = [q_call EXCEPT ![t] =
                       [op |-> "mark_seen", url |-> u, depth |-> 0, norm |-> NormalizeUrl(u),
                        ret |-> "unset", n |-> q_calls + 1]]
    /\ q_calls' = q_calls + 1
    /\ q_pc' = [q_pc EXCEPT ![t] = "acquire"]
    /\ UNCHANGED <<q_queue, q_seen, q_lock, q_log>>
    /\ UNCHANGED notq

QCallGet(t) ==
    /\ q_pc[t] = "idle" /\ q_calls < MaxCalls
    /\ q_call' = [q_call EXCEPT ![t] =
                    [NoCall EXCEPT !.op = "get", !.n = q_calls + 1]]
    /\ q_calls' = q_calls + 1
    /\ q_pc' = [q_pc EXCEPT ![t] = "acquire"]
    /\ UNCHANGED <<q_queue, q_seen, q_lock, q_log>>
    /\ UNCHANGED notq

QAcquire(t) ==
    /\ q_pc[t] = "acquire"
    /\ LockAcquire(t)
    /\ q_pc' = [q_pc EXCEPT ![t] = q_call[t].op]
    /\ UNCHANGED <<q_queue, q_seen, q_call, q_log, q_calls>>
    /\ UNCHANGED notq

\* add, line 236: if normalized not in self._seen
QAddTest(t) ==
    /\ q_pc[t] = "add"
    /\ IF q_call[t].norm \notin q_seen
         THEN /\ q_pc' = [q_pc EXCEPT ![t] = "add_seen"]
              /\ UNCHANGED q_call
         ELSE /\ q_pc' = [q_pc EXCEPT ![t] = "release"]
              /\ q_call' = [q_call EXCEPT ![t].ret = "False"]
    /\ UNCHANGED <<q_queue, q_seen, q_lock, q_log, q_calls>>
    /\ UNCHANGED notq

\* add, line 237: self._seen.add(normalized)
QAddSeen(t) ==
    /\ q_pc[t] = "add_seen"
    /\ q_seen' = q_seen \cup {q_call[t].norm}
    /\ q_pc' = [q_pc EXCEPT ![t] = "add_append"]
    /\ UNCHANGED <<q_queue, q_lock, q_call, q_log, q_calls>>
    /\ UNCHANGED notq

\* add, lines 238-239: self._queue.append((url, depth)); return True
QAddAppend(t) ==
    /\ q_pc[t] = "add_append"
    /\ q_queue' = Append(q_queue, [url |-> q_call[t].url, depth |-> q_call[t].depth])
    /\ q_log' = Append(q_log, [ev |-> "append", url |-> q_call[t].url,
                               by |-> t, n |-> q_call[t].n])
    /\ q_call' = [q_call EXCEPT ![t].ret = "True"]
    /\ q_pc' = [q_pc EXCEPT ![t] = "release"]
    /\ UNCHANGED <<q_seen, q_lock, q_calls>>
    /\ UNCHANGED notq

\* get, lines 249-251
QGet(t) ==
    /\ q_pc[t] = "get"
    /\ IF q_queue # <<>>
         THEN /\ q_call' = [q_call EXCEPT ![t].ret = "item", ![t].url = Head(q_queue).url,
                                           ![t].depth = Head(q_queue).depth]
              /\ q_queue' = Tail(q_queue)
              /\ q_log' = Append(q_log, [ev |-> "get", url |-> Head(q_queue).url,
                                         by |-> t, n |-> q_call[t].n])
         ELSE /\ q_call' = [q_call EXCEPT ![t].ret = "None"]
              /\ UNCHANGED <<q_queue, q_log>>
    /\ q_pc' = [q_pc EXCEPT ![t] = "release"]
    /\ UNCHANGED <<q_seen, q_lock, q_calls>>
    /\ UNCHANGED notq

\* mark_seen, line 261
QMarkSeen(t) ==
    /\ q_pc[t] = "mark_seen"
    /\ q_seen' = q_seen \cup {q_call[t].norm}
    /\ q_log' = Append(q_log, [ev |-> "mark", url |-> q_call[t].url,
                               by |-> t, n |-> q_call[t].n])
    /\ q_pc' = [q_pc EXCEPT ![t] = "release"]
    /\ UNCHANGED <<q_queue, q_lock, q_call, q_calls>>
    /\ UNCHANGED notq

\* the `with` block is left: the lock is released and the call returns
QRelease(t) ==
    /\ q_pc[t] = "release"
    /\ q_lock' = 0
    /\ q_pc' = [q_pc EXCEPT ![t] = "idle"]
    /\ UNCHANGED <<q_queue, q_seen, q_call, q_log, q_calls>>
    /\ UNCHANGED notq

QNext ==
    \E t \in Threads :
        \/ QCallAdd(t)
        \/ QCallMarkSeen(t)
        \/ QCallGet(t)
        \/ QAcquire(t)
        \/ QAddTest(t)
        \/ QAddSeen(t)
        \/ QAddAppend(t)
        \/ QGet(t)
        \/ QMarkSeen(t)
        \/ QRelease(t)

\* the frontier at rest, for the specifications that do not share it between threads
QIdle == QInit

-----------------------------------------------------------------------------
(* rate_limiter.py: RateLimiter.wait *)

Hosts == {"e.c", "f.c"}

Max(a, b) == IF a >= b THEN a ELSE b

\* wait, lines 76-77: wait_time = max(0, delay - (now - last_request))
NoWaitTime(delay, now, last) == 0
WaitTime(delay, now, last) == Max(0, delay - (now - last))

\* wait, line 73: self._domain_delays.get(domain, self.default_delay)
DelayOf(h) == IF r_delays[h] >= 0 THEN r_delays[h] ELSE r_default

\* the locals of a call; out is how the caller's last call ended, when it ended
\* with an exception ("none" otherwise)
NoWait ==
    [host |-> "e.c", wait_time |-> 0, wake |-> 0, n |-> 0, op |-> "wait", arg |-> 0,
     out |-> "none"]

\* Lock.release(): a threading.Lock has no owner, so release() frees the lock
\* whoever took it, and raises RuntimeError when the lock is free
ReleaseRaises == r_lock = 0
\* how a call ends that leaves its with block while exc is on its way ("none" for a
\* return): the RuntimeError of __exit__'s release() replaces it
OutAfterExit(exc) == IF ReleaseRaises THEN "RuntimeError" ELSE exc

\* KeyboardInterrupt is raised in the main thread only
MainThread == CHOOSE t \in Threads : \A u \in Threads : t <= u

\* time.time() is seconds since 1970, far above any delay: the clock starts at MaxDelay
RInitWith(callers) ==
    /\ r_now = MaxDelay
    /\ r_default \in 0..MaxDelay
    /\ r_delays \in {[h \in Hosts |-> -1], [h \in Hosts |-> IF h = "e.c" THEN MaxDelay ELSE -1]}
    /\ r_last = [h \in Hosts |-> 0]
    /\ r_lock = 0
    /\ r_callers = callers
    /\ r_pc = [t \in Threads |-> "idle"]
    /\ r_loc = [t \in Threads |-> NoWait]
    /\ r_log = <<>>

RIdle ==
    /\ r_now = 0 /\ r_default = 0 /\ r_delays = [h \in Hosts |-> -1]
    /\ r_last = [h \in Hosts |-> 0] /\ r_lock = 0 /\ r_callers = {}
    /\ r_pc = [t \in Threads |-> "idle"] /\ r_loc = [t \in Threads |-> NoWait]
    /\ r_log = <<>>

\* time passes.  The clock is read only inside wait, so the time that passes between
\* two calls is the time that passes at the start of the next one.
RTick ==
    /\ \E t \in r_callers : r_pc[t] # "idle"
    /\ r_now < MaxDelay + MaxTicks
    /\ r_now' = r_now + 1
    /\ UNCHANGED <<r_default, r_delays, r_last, r_lock, r_callers, r_pc, r_loc, r_log>>
    /\ UNCHANGED notr

\* a caller calls wait(host)
RCall(t) ==
    /\ t \in r_callers /\ r_pc[t] = "idle"
    /\ Len(r_log) + Cardinality({c \in r_callers : r_pc[c] # "idle"}) < MaxWaits
    /\ \E h \in Hosts :
          r_loc' = [r_loc EXCEPT ![t] =
                      [NoWait EXCEPT !.host = h,
                                     !.n = Len(r_log) + Cardinality({c \in r_callers : r_pc[c] # "idle"}) + 1]]
    /\ r_pc' = [r_pc EXCEPT ![t] = "acquire"]
    /\ UNCHANGED <<r_now, r_default, r_delays, r_last, r_lock, r_callers, r_log>>
    /\ UNCHANGED notr

\* line 71: with self._lock
RAcquire(t) ==
    /\ r_pc[t] = "acquire"
    /\ r_lock = 0
    /\ r_lock' = t
    /\ r_pc' = [r_pc EXCEPT ![t] = "compute"]
    /\ UNCHANGED <<r_now, r_default, r_delays, r_last, r_callers, r_loc, r_log>>
    /\ UNCHANGED notr

\* lines 72-79: read the clock and the last request, compute wait_time
RCompute(t) ==
    /\ r_pc[t] = "compute"
    /\ LET h == r_loc[t].host
           w == WaitTime(DelayOf(h), r_now, r_last[h])
       IN /\ r_loc' = [r_loc EXCEPT ![t].wait_time = w]
          /\ r_pc' = [r_pc EXCEPT ![t] = IF w > 0 THEN "unlock" ELSE "record"]
    /\ UNCHANGED <<r_now, r_default, r_delays, r_last, r_lock, r_callers, r_log>>
    /\ UNCHANGED notr

\* line 82: self._lock.release() before the sleep: the lock has no holder
ReleasedForSleep(t) == 0

\* lines 82-84: self._lock.release(); time.sleep(wait_time) begins.  When the lock
\* is free already (another thread released it), release() raises RuntimeError, and
\* so does the release() of the with block as the exception leaves it
RUnlockSleep(t) ==
    /\ r_pc[t] = "unlock"
    /\ r_lock' = ReleasedForSleep(t)
    /\ IF ReleaseRaises
         THEN /\ r_loc' = [r_loc EXCEPT ![t] = [NoWait EXCEPT !.out = "RuntimeError"]]
              /\ r_pc' = [r_pc EXCEPT ![t] = "idle"]
         ELSE /\ r_loc' = [r_loc EXCEPT ![t].wake = r_now + r_loc[t].wait_time]
              /\ r_pc' = [r_pc EXCEPT ![t] = "sleeping"]
    /\ UNCHANGED <<r_now, r_default, r_delays, r_last, r_callers, r_log>>
    /\ UNCHANGED notr

\* lines 84-86: the sleep is over (no earlier than asked), self._lock.acquire()
RWakeAcquire(t) ==
    /\ r_pc[t] = "sleeping"
    /\ r_now >= r_loc[t].wake
    /\ r_lock = 0
    /\ r_lock' = t
    /\ r_pc' = [r_pc EXCEPT ![t] = "record"]
    /\ UNCHANGED <<r_now, r_default, r_delays, r_last, r_callers, r_loc, r_log>>
    /\ UNCHANGED notr

\* line 89: self._last_request[domain] = time.time(); the log keeps the calls that
\* were numbered when they were made
RRecord(t) ==
    /\ r_pc[t] = "record"
    /\ r_last' = [r_last EXCEPT ![r_loc[t].host] = r_now]
    /\ r_log' = IF r_loc[t].n = 0 THEN r_log
                ELSE Append(r_log, [host |-> r_loc[t].host, time |-> r_now, n |-> r_loc[t].n,
                                    waited |-> r_loc[t].wait_time])
    /\ r_pc' = [r_pc EXCEPT ![t] = "return"]
    /\ UNCHANGED <<r_now, r_default, r_delays, r_lock, r_callers, r_loc>>
    /\ UNCHANGED notr

\* line 91: return wait_time, leaving the with block (release(), which raises
\* RuntimeError in place of the return when the lock is free)
RReturn(t) ==
    /\ r_pc[t] = "return"
    /\ r_lock' = 0
    /\ r_pc' = [r_pc EXCEPT ![t] = "idle"]
    /\ r_loc' = [r_loc EXCEPT ![t].out = OutAfterExit("none")]
    /\ UNCHANGED <<r_now, r_default, r_delays, r_last, r_callers, r_log>>
    /\ UNCHANGED notr

\* lines 84-86: time.sleep raises KeyboardInterrupt (the main thread is
\* interrupted in its sleep); the finally clause is entered
RInterrupt(t) ==
    /\ t = MainThread
    /\ r_pc[t] = "sleeping"
    /\ r_pc' = [r_pc EXCEPT ![t] = "interrupted"]
    /\ UNCHANGED <<r_now, r_default, r_delays, r_last, r_lock, r_callers, r_loc, r_log>>
    /\ UNCHANGED notr

\* line 86, on the way out of a sleep that raised: self._lock.acquire()
RReacquire(t) ==
    /\ r_pc[t] = "interrupted"
    /\ r_lock = 0
    /\ r_lock' = t
    /\ r_pc' = [r_pc EXCEPT ![t] = "raise"]
    /\ UNCHANGED <<r_now, r_default, r_delays, r_last, r_callers, r_loc, r_log>>
    /\ UNCHANGED notr

\* line 71, on an exception: the with block releases the lock and wait raises
RRaise(t) ==
    /\ r_pc[t] = "raise"
    /\ r_lock' = 0
    /\ r_pc' = [r_pc EXCEPT ![t] = "idle"]
    /\ r_loc' = [r_loc EXCEPT ![t] = [NoWait EXCEPT !.out = OutAfterExit("KeyboardInterrupt")]]
    /\ UNCHANGED <<r_now, r_default, r_delays, r_last, r_callers, r_log>>
    /\ UNCHANGED notr

\* KeyboardInterrupt in the main thread while it is inside the with block of wait
\* without the lock: after release() and before the try (lines 82-83), or in the
\* acquire() of the finally clause (line 86), which blocks while another thread
\* has the lock, after a sleep that ended or that raised.  The exception leaves the
\* with block, whose __exit__ calls release(): it frees the lock of the thread that
\* has it, or raises RuntimeError when the lock is free
RInterruptUnlocked(t) ==
    /\ t = MainThread
    /\ r_pc[t] \in {"sleeping", "interrupted"}
    /\ r_lock' = 0
    /\ r_pc' = [r_pc EXCEPT ![t] = "idle"]
    /\ r_loc' = [r_loc EXCEPT ![t] = [NoWait EXCEPT !.out = OutAfterExit("KeyboardInterrupt")]]
    /\ UNCHANGED <<r_now, r_default, r_delays, r_last, r_callers, r_log>>
    /\ UNCHANGED notr

\* KeyboardInterrupt in the main thread at another point of a method: waiting to
\* enter a with block (the exception leaves the method), or inside one with the
\* lock taken (__exit__ calls release())
RInterruptLocked(t) ==
    /\ t = MainThread
    /\ r_pc[t] \in {"acquire", "op_acquire", "compute", "unlock", "record", "return", "raise", "op_body"}
    /\ IF r_pc[t] \in {"acquire", "op_acquire"}
         THEN /\ UNCHANGED r_lock
              /\ r_loc' = [r_loc EXCEPT ![t] = [NoWait EXCEPT !.out = "KeyboardInterrupt"]]
         ELSE /\ r_lock' = 0
              /\ r_loc' = [r_loc EXCEPT ![t] = [NoWait EXCEPT !.out = OutAfterExit("KeyboardInterrupt")]]
    /\ r_pc' = [r_pc EXCEPT ![t] = "idle"]
    /\ UNCHANGED <<r_now, r_default, r_delays, r_last, r_callers, r_log>>
    /\ UNCHANGED notr

\* the methods of the RateLimiter
RateOps == {"wait", "set_domain_delay", "get_delay", "record_request", "time_until_allowed"}

\* a caller calls wait(host), set_domain_delay(host, delay), get_delay(host),
\* record_request(host) or time_until_allowed(host); the calls are not numbered
ROpCall(t) ==
    /\ t \in r_callers /\ r_pc[t] = "idle"
    /\ \E op \in RateOps, h \in Hosts, d \in {0, MaxDelay} :
          /\ op # "set_domain_delay" => d = 0
          /\ r_loc' = [r_loc EXCEPT ![t] = [NoWait EXCEPT !.host = h, !.op = op, !.arg = d]]
          /\ r_pc' = [r_pc EXCEPT ![t] = IF op = "wait" THEN "acquire" ELSE "op_acquire"]
    /\ UNCHANGED <<r_now, r_default, r_delays, r_last, r_lock, r_callers, r_log>>
    /\ UNCHANGED notr

\* lines 44, 56, 101, 113: with self._lock
ROpAcquire(t) ==
    /\ r_pc[t] = "op_acquire"
    /\ r_lock = 0
    /\ r_lock' = t
    /\ r_pc' = [r_pc EXCEPT ![t] = "op_body"]
    /\ UNCHANGED <<r_now, r_default, r_delays, r_last, r_callers, r_loc, r_log>>
    /\ UNCHANGED notr

\* lines 45, 57, 102, 114-119: the body of the method under the lock, and the end of
\* the with block (release()); get_delay and time_until_allowed change nothing.
\* The method returns, or, in the main thread, a KeyboardInterrupt is raised after
\* the body, between it and the release() of __exit__ or as release() returns: the
\* body has had its effect, the lock is released and the call raises
ROpBody(t) ==
    /\ r_pc[t] = "op_body"
    /\ LET h == r_loc[t].host
           op == r_loc[t].op
       IN /\ r_delays' = IF op = "set_domain_delay"
                           THEN [r_delays EXCEPT ![h] = r_loc[t].arg] ELSE r_delays
          /\ r_last' = IF op = "record_request"
                         THEN [r_last EXCEPT ![h] = r_now] ELSE r_last
          /\ \E exc \in (IF t = MainThread THEN {"none", "KeyboardInterrupt"} ELSE {"none"}) :
                r_loc' = [r_loc EXCEPT ![t] = [NoWait EXCEPT !.out = OutAfterExit(exc)]]
    /\ r_lock' = 0
    /\ r_pc' = [r_pc EXCEPT ![t] = "idle"]
    /\ UNCHANGED <<r_now, r_default, r_callers, r_log>>
    /\ UNCHANGED notr

\* a RateLimiter(1) with no override, shared by the threads; the clock is followed
\* for MaxDelay ticks
ROpsInit ==
    /\ r_now = MaxTicks
    /\ r_default = 1
    /\ r_delays = [h \in Hosts |-> -1]
    /\ r_last = [h \in Hosts |-> 0]
    /\ r_lock = 0
    /\ r_callers = Threads
    /\ r_pc = [t \in Threads |-> "idle"]
    /\ r_loc = [t \in Threads |-> NoWait]
    /\ r_log = <<>>

\* every method of the RateLimiter, called by every thread
ROpsNext ==
    \/ RTick
    \/ \E t \in Threads :
        \/ RAcquire(t)
        \/ RCompute(t)
        \/ RUnlockSleep(t)
        \/ RWakeAcquire(t)
        \/ RRecord(t)
        \/ RReturn(t)
        \/ RInterrupt(t)
        \/ RReacquire(t)
        \/ RRaise(t)
        \/ RInterruptUnlocked(t)
        \/ RInterruptLocked(t)
        \/ ROpCall(t)
        \/ ROpAcquire(t)
        \/ ROpBody(t)

RNext ==
    \/ RTick
    \/ \E t \in Threads :
        \/ RCall(t)
        \/ RAcquire(t)
        \/ RCompute(t)
        \/ RUnlockSleep(t)
        \/ RWakeAcquire(t)
        \/ RRecord(t)
        \/ RReturn(t)

-----------------------------------------------------------------------------
(* url_utils.py: url_to_filename *)

\* the characters of \w (ASCII letters, digits and the underscore) and the hyphen
WordChars ==
    {"0", "1", "2", "3", "4", "5", "6", "7", "8", "9",
     "a", "b", "c", "d", "e", "f", "g", "h", "i", "j", "k", "l", "m",
     "n", "o", "p", "q", "r", "s", "t", "u", "v", "w", "x", "y", "z",
     "A", "B", "C", "D", "E", "F", "G", "H", "I", "J", "K", "L", "M",
     "N", "O", "P", "Q", "R", "S", "T", "U", "V", "W", "X", "Y", "Z",
     "_", "-"}

\* re.sub(r"[^\w\-]", "_", .) on one character
SafeChar(c) == IF c \in WordChars THEN c ELSE "_"

\* re.sub(r"_+", "_", .)
RECURSIVE Collapse(_)
Collapse(s) ==
    IF Len(s) < 2 THEN s
    ELSE IF s[1] = "_" /\ s[2] = "_" THEN Collapse(Tail(s))
    ELSE <<s[1]>> \o Collapse(Tail(s))

\* str.lstrip(c)
RECURSIVE LStrip(_, _)
LStrip(s, c) == IF s # <<>> /\ s[1] = c THEN LStrip(Tail(s), c) ELSE s

\* hashlib.md5, lines 173-174: the MD5 digest (RFC 1321) of the bytes of the URL.
\* A 32-bit word is the pair of its high and low 16 bits

\* the printable ASCII characters, from the space (code 32) to the tilde (code 126);
\* the double quote, the backslash and the backtick, which no URL of the model
\* holds, are named
AsciiChars ==
    <<" ", "!", "quote", "#", "$", "%", "&", "'", "(", ")", "*", "+", ",", "-", ".", "/",
      "0", "1", "2", "3", "4", "5", "6", "7", "8", "9", ":", ";", "<", "=", ">", "?",
      "@", "A", "B", "C", "D", "E", "F", "G", "H", "I", "J", "K", "L", "M", "N", "O",
      "P", "Q", "R", "S", "T", "U", "V", "W", "X", "Y", "Z", "[", "backslash", "]", "^", "_",
      "backtick", "a", "b", "c", "d", "e", "f", "g", "h", "i", "j", "k", "l", "m", "n", "o",
      "p", "q", "r", "s", "t", "u", "v", "w", "x", "y", "z", "{", "|", "}", "~">>

\* str.encode() on one character: its code
ByteOf(c) == 31 + CHOOSE i \in 1..Len(AsciiChars) : AsciiChars[i] = c

\* floor(2^32 * abs(sin(i))) for i = 1..64
Md5Sines ==
    <<<<55146, 42104>>, <<59591, 46934>>, <<9248, 28891>>, <<49597, 52974>>,
     <<62844, 4015>>, <<18311, 50730>>, <<43056, 17939>>, <<64838, 38145>>,
     <<27008, 39128>>, <<35652, 63407>>, <<65535, 23473>>, <<35164, 55230>>,
     <<27536, 4386>>, <<64920, 29075>>, <<42617, 17294>>, <<18868, 2081>>,
     <<63006, 9570>>, <<49216, 45888>>, <<9822, 23121>>, <<59830, 51114>>,
     <<54831, 4189>>, <<580, 5203>>, <<55457, 59009>>, <<59347, 64456>>,
     <<8673, 52710>>, <<49975, 2006>>, <<62677, 3463>>, <<17754, 5357>>,
     <<43491, 59653>>, <<64751, 41976>>, <<26479, 729>>, <<36138, 19594>>,
     <<65530, 14658>>, <<34673, 63105>>, <<28061, 24866>>, <<64997, 14348>>,
     <<42174, 59972>>, <<19422, 53161>>, <<63163, 19296>>, <<48831, 48240>>,
     <<10395, 32454>>, <<60065, 10234>>, <<54511, 12421>>, <<1160, 7429>>,
     <<55764, 53305>>, <<59099, 39397>>, <<8098, 31992>>, <<50348, 22117>>,
     <<62505, 8772>>, <<17194, 65431>>, <<43924, 9127>>, <<64659, 41017>>,
     <<25947, 22979>>, <<36620, 52370>>, <<65519, 62589>>, <<34180, 24017>>,
     <<28584, 32335>>, <<65068, 59104>>, <<41729, 17172>>, <<19976, 4513>>,
     <<63315, 32386>>, <<48442, 62005>>, <<10967, 53947>>, <<60294, 54161>>>>

\* the left rotations of the four rounds
Md5Shifts == <<<<7, 12, 17, 22>>, <<5, 9, 14, 20>>, <<4, 11, 16, 23>>, <<6, 10, 15, 21>>>>

\* the initial state of MD5
Md5Start == <<<<26437, 8961>>, <<61389, 43913>>, <<39098, 56574>>, <<4146, 21622>>>>

\* the halves of a word, and the words
Halves == 0..65535
Words == Halves \X Halves

\* a bitwise operation as its truth table: the result for the bits x and y is
\* table[2 * x + y + 1]
BitTables == [1..4 -> 0..1]
AndTable == <<0, 0, 0, 1>>
OrTable == <<0, 1, 1, 1>>
XorTable == <<0, 1, 1, 0>>

\* bit k of a
Bit(a, k) == (a \div (2 ^ k)) % 2

\* the operation on two numbers of 4 bits, and on two halves
BitWise4[t \in BitTables, a \in 0..15, b \in 0..15] ==
    t[2 * Bit(a, 0) + Bit(b, 0) + 1] + 2 * t[2 * Bit(a, 1) + Bit(b, 1) + 1]
    + 4 * t[2 * Bit(a, 2) + Bit(b, 2) + 1] + 8 * t[2 * Bit(a, 3) + Bit(b, 3) + 1]
BitWise[t \in BitTables, a \in Halves, b \in Halves] ==
    IF a < 16 /\ b < 16 THEN BitWise4[t, a, b]
    ELSE BitWise4[t, a % 16, b % 16] + 16 * BitWise[t, a \div 16, b \div 16]

WordAnd[a \in Words, b \in Words] == <<BitWise[AndTable, a[1], b[1]], BitWise[AndTable, a[2], b[2]]>>
WordOr[a \in Words, b \in Words] == <<BitWise[OrTable, a[1], b[1]], BitWise[OrTable, a[2], b[2]]>>
WordXor[a \in Words, b \in Words] == <<BitWise[XorTable, a[1], b[1]], BitWise[XorTable, a[2], b[2]]>>
WordNot[a \in Words] == <<65535 - a[1], 65535 - a[2]>>

\* addition modulo 2^32
WordAdd[a \in Words, b \in Words] ==
    <<(a[1] + b[1] + ((a[2] + b[2]) \div 65536)) % 65536, (a[2] + b[2]) % 65536>>

\* rotation to the left by s bits
WordRotl[a \in Words, s \in 1..31] ==
    IF s = 16 THEN <<a[2], a[1]>>
    ELSE IF s > 16 THEN WordRotl[<<a[2], a[1]>>, s - 16]
    ELSE <<((a[1] * 2 ^ s) % 65536) + (a[2] \div 2 ^ (16 - s)),
           ((a[2] * 2 ^ s) % 65536) + (a[1] \div 2 ^ (16 - s))>>

\* the function of round i \div 16 on b, c, d
Md5Mix[i \in 0..63, b \in Words, c \in Words, d \in Words] ==
    CASE i < 16 -> WordOr[WordAnd[b, c], WordAnd[WordNot[b], d]]
      [] i < 32 -> WordOr[WordAnd[d, b], WordAnd[WordNot[d], c]]
      [] i < 48 -> WordXor[b, WordXor[c, d]]
      [] OTHER -> WordXor[c, WordOr[b, WordNot[d]]]

\* the index in the block of the word that step i reads
Md5Index(i) ==
    CASE i < 16 -> i
      [] i < 32 -> (5 * i + 1) % 16
      [] i < 48 -> (3 * i + 5) % 16
      [] OTHER -> (7 * i) % 16

\* the states <<a, b, c, d>> and the blocks of 16 words
Md5States == Words \X Words \X Words \X Words
Md5BlockSet == [1..16 -> Words]

\* step i on the state <<a, b, c, d>>, with the word m of the block
Md5Step[i \in 0..63, st \in Md5States, m \in Words] ==
    <<st[4],
      WordAdd[st[2], WordRotl[WordAdd[WordAdd[Md5Mix[i, st[2], st[3], st[4]], st[1]],
                                      WordAdd[Md5Sines[i + 1], m]],
                              Md5Shifts[(i \div 16) + 1][(i % 4) + 1]]],
      st[2], st[3]>>

\* the word of the block that step i reads
Md5Word(block, i) == block[Md5Index(i) + 1]

\* the n steps from step first of one block, n up to 4, and the 4 * n steps, n up to 4
Md5Steps4[first \in 0..63, n \in 0..4, st \in Md5States, block \in Md5BlockSet] ==
    IF n = 0 THEN st
    ELSE Md5Step[first + n - 1, Md5Steps4[first, n - 1, st, block], Md5Word(block, first + n - 1)]
Md5Steps16[first \in 0..63, n \in 0..4, st \in Md5States, block \in Md5BlockSet] ==
    IF n = 0 THEN st
    ELSE Md5Steps4[first + 4 * (n - 1), 4, Md5Steps16[first, n - 1, st, block], block]

\* the sum of two states, word by word
Md5Sum[s \in Md5States, t \in Md5States] ==
    <<WordAdd[s[1], t[1]], WordAdd[s[2], t[2]], WordAdd[s[3], t[3]], WordAdd[s[4], t[4]]>>

\* the 64 steps of one block, added to the state
Md5Rounds[st \in Md5States, block \in Md5BlockSet] ==
    Md5Sum[st, Md5Steps16[48, 4, Md5Steps16[32, 4, Md5Steps16[16, 4, Md5Steps16[0, 4, st, block],
                                                            block], block], block]]

\* the message with its padding: the byte 128, zeros up to 56 modulo 64, and the
\* length in bits as 8 bytes, low byte first
Md5Pad(bytes) ==
    bytes \o <<128>> \o [i \in 1..((119 - (Len(bytes) % 64)) % 64) |-> 0]
    \o [i \in 1..8 |-> IF i <= 4 THEN ((8 * Len(bytes)) \div (256 ^ (i - 1))) % 256 ELSE 0]

\* the 16 words of the k-th block, each of 4 bytes, low byte first
Md5Block(padded, k) ==
    [j \in 1..16 |->
        <<padded[64 * (k - 1) + 4 * (j - 1) + 3] + 256 * padded[64 * (k - 1) + 4 * (j - 1) + 4],
          padded[64 * (k - 1) + 4 * (j - 1) + 1] + 256 * padded[64 * (k - 1) + 4 * (j - 1) + 2]>>]

\* the state after the first k blocks of the padded message
Md5Blocks[padded \in Seq(0..255), k \in Nat] ==
    IF k = 0 THEN Md5Start ELSE Md5Rounds[Md5Blocks[padded, k - 1], Md5Block(padded, k)]

HexDigits == <<"0", "1", "2", "3", "4", "5", "6", "7", "8", "9", "a", "b", "c", "d", "e", "f">>

HexOfByte(b) == <<HexDigits[(b \div 16) + 1], HexDigits[(b % 16) + 1]>>

\* the 8 hexadecimal digits of a word, low byte first
HexOfWord[a \in Words] ==
    HexOfByte(a[2] % 256) \o HexOfByte(a[2] \div 256)
    \o HexOfByte(a[1] % 256) \o HexOfByte(a[1] \div 256)

\* hashlib.md5(s.encode()).hexdigest()[:8]: the first four bytes of the digest are
\* the first word of the state
Md5Hex8OfString(s) ==
    HexOfWord[Md5Blocks[Md5Pad([i \in 1..Len(s) |-> ByteOf(s[i])]), ((Len(s) + 8) \div 64) + 1][1]]

\* hashlib.md5(url.encode()).hexdigest()[:8] for the URL u
Md5Hex8(u) == Md5Hex8OfString(UrlString(u))

\* s[:n] of a string: its first n characters, or all but its last -n when n < 0
Slice(s, n) ==
    IF n >= 0 THEN SubSeq(s, 1, IF n < Len(s) THEN n ELSE Len(s))
    ELSE SubSeq(s, 1, Len(s) + n)

\* url_to_filename(url, max_length): a slug longer than max_length is cut to
\* slug[: max_length - 9] and gets "_" and the digest of lines 172-175
UrlToFilenameWithin(u, max_length) ==
    LET parts == <<u.netloc>> \o SelectSeq(SplitOn(u.path, "/"), LAMBDA seg : seg # <<>>)
        slug == Join(parts, "_")
        safe == Collapse([i \in 1..Len(slug) |-> SafeChar(slug[i])])
        cut == IF Len(safe) > max_length
                 THEN Slice(safe, max_length - 9) \o <<"_">> \o Md5Hex8(u)
                 ELSE safe
    IN RStrip(LStrip(cut, "_"), "_")

\* url_to_filename(url) as storage.py line 98 calls it, with the default max_length
DefaultMaxLength == 100

UrlToFilename(u) == UrlToFilenameWithin(u, DefaultMaxLength)

-----------------------------------------------------------------------------
(* change_detector.py and storage.py *)

\* A file is a sequence of lines; a line is [text, hash, url]: the line's text, and the
\* value of a content_hash or source_url line of the front matter.
Line(text, hash, url) == [text |-> text, hash |-> hash, url |-> url]

\* compute_hash: SHA-256 of the content, modelled as collision-free on the bodies of
\* the model (the digits of a base-4 number are the lines)
RECURSIVE ComputeHash(_)
ComputeHash(body) ==
    IF body = <<>> THEN 0
    ELSE (CASE body[1] = "x" -> 1 [] body[1] = "y" -> 2 [] OTHER -> 3)
         + 4 * ComputeHash(Tail(body))

\* the position of the first line "---" after line 1 that a newline follows (the
\* lines of a text are joined by newlines, so that it is not the last line), 0 when
\* there is none (extract_hash_from_file, line 51: re.search(r"\n---\n", content[3:]))
EndOfFrontMatter(text) ==
    LET ends == {i \in 2..(Len(text) - 1) : text[i].text = "---"}
    IN IF ends = {} THEN 0 ELSE CHOOSE i \in ends : \A j \in ends : i <= j

\* extract_hash_from_file on the text of an existing file; -1 is None
ExtractHash(text) ==
    IF text = <<>> \/ text[1].text # "---" THEN -1
    ELSE LET e == EndOfFrontMatter(text)
         IN IF e = 0 THEN -1
            ELSE LET hs == {i \in 2..(e - 1) : text[i].text = "content_hash"}
                 IN IF hs = {} THEN -1 ELSE text[CHOOSE i \in hs : TRUE].hash

\* storage.py line 126: content_hash = compute_hash(markdown_content)
EmptyContentHash(body) == ComputeHash(<<>>)
ContentHash(body) == ComputeHash(body)

\* storage.py lines 136-146: "---\n" + yaml + "---\n\n" + markdown_content; the value
\* of the crawl_timestamp line is kept in the line's hash field
FileContent(url, stamp, hash, body) ==
    <<Line("---", -1, UrlRoot), Line("source_url", -1, url),
      Line("crawl_timestamp", stamp, UrlRoot), Line("content_hash", hash, UrlRoot),
      Line("---", -1, UrlRoot), Line("", -1, UrlRoot)>>
    \o [i \in 1..Len(body) |-> Line(body[i], -1, UrlRoot)]

Absent == [exists |-> FALSE, text |-> <<>>]
File(text) == [exists |-> TRUE, text |-> text]

\* the URLs saved (two URLs that url_to_filename maps to one name) and the Markdown
\* bodies of the model
StoreUrls == {UrlAB, UrlA_B}
Bodies == {<<"x">>, <<"y", "---">>}
StoreNames == {UrlToFilename(u) : u \in StoreUrls \cup {UrlRoot, UrlPyx, UrlABC}}

NoSave == [url |-> UrlRoot, body |-> <<>>, force |-> FALSE, name |-> UrlToFilename(UrlRoot),
           hash |-> 0, content |-> <<>>]

SInit ==
    /\ s_files = [n \in StoreNames |-> Absent]
    /\ s_tmp = [n \in StoreNames |-> Absent]
    /\ s_pc = "idle"
    /\ s_arg = NoSave
    /\ s_ret = FALSE
    /\ s_prev = Absent

SIdle == SInit

\* the crawl_timestamp of a page file, 0 when it has none
StampOf(file) ==
    LET at == {i \in 1..Len(file.text) : file.text[i].text = "crawl_timestamp"}
    IN IF at = {} THEN 0 ELSE file.text[CHOOSE i \in at : TRUE].hash

\* line 139: datetime.now() is later than the crawl_timestamp of the file on disk;
\* two values tell a file from the one it replaces
Now(file) == 1 - StampOf(file)

\* save is entered, lines 123-126
SaveEnter(url, body, force) ==
    LET h == ContentHash(body)
    IN /\ s_arg' = [url |-> url, body |-> body, force |-> force, name |-> UrlToFilename(url),
                    hash |-> h,
                    content |-> FileContent(url, Now(s_files[UrlToFilename(url)]), h, body)]
       /\ s_prev' = s_files[UrlToFilename(url)]
       /\ s_pc' = "check"
       /\ UNCHANGED <<s_files, s_tmp, s_ret>>

\* a caller calls save(url, title, markdown_content, force=...)
SCall ==
    /\ s_pc \in {"idle", "returned", "raised", "killed"}
    /\ \E u \in StoreUrls, b \in Bodies, f \in BOOLEAN : SaveEnter(u, b, f)
    /\ UNCHANGED nots

\* lines 129-132: not force, the file exists, and its content_hash is the new one
NeverUnchanged(force, file, hash) == FALSE
Unchanged(force, file, hash) ==
    /\ ~force
    /\ file.exists
    /\ ExtractHash(file.text) = hash

\* lines 129-133: the change check
SCheck ==
    /\ s_pc = "check"
    /\ IF Unchanged(s_arg.force, s_files[s_arg.name], s_arg.hash)
         THEN s_pc' = "returned" /\ s_ret' = FALSE
         ELSE s_pc' = "open" /\ UNCHANGED s_ret
    /\ UNCHANGED <<s_files, s_tmp, s_arg, s_prev>>
    /\ UNCHANGED nots

\* line 152: open(temp_filepath, "w") creates or truncates the temp file, or raises
SOpenTmp ==
    /\ s_pc = "open"
    /\ \/ /\ s_tmp' = [s_tmp EXCEPT ![s_arg.name] = File(<<>>)]
          /\ s_pc' = "write"
       \/ /\ s_pc' = "cleanup"
          /\ UNCHANGED s_tmp
    /\ UNCHANGED <<s_files, s_arg, s_ret, s_prev>>
    /\ UNCHANGED nots

\* line 153: f.write(file_content) and the close; a failure leaves a prefix
SWrite ==
    /\ s_pc = "write"
    /\ \/ /\ s_tmp' = [s_tmp EXCEPT ![s_arg.name] = File(s_arg.content)]
          /\ s_pc' = "unlink"
       \/ /\ \E k \in 0..(Len(s_arg.content) - 1) :
                s_tmp' = [s_tmp EXCEPT ![s_arg.name] = File(SubSeq(s_arg.content, 1, k))]
          /\ s_pc' = "cleanup"
    /\ UNCHANGED <<s_files, s_arg, s_ret, s_prev>>
    /\ UNCHANGED nots

\* lines 156-157: if filepath.exists(): filepath.unlink()
SUnlink ==
    /\ s_pc = "unlink"
    /\ \/ /\ s_files' = [s_files EXCEPT ![s_arg.name] = Absent]
          /\ s_pc' = "rename"
       \/ /\ s_files[s_arg.name].exists
          /\ s_pc' = "cleanup"
          /\ UNCHANGED s_files
    /\ UNCHANGED <<s_tmp, s_arg, s_ret, s_prev>>
    /\ UNCHANGED nots

\* lines 158-161: temp_filepath.rename(filepath); return (True, filepath)
SRename ==
    /\ s_pc = "rename"
    /\ \/ /\ s_files' = [s_files EXCEPT ![s_arg.name] = s_tmp[s_arg.name]]
          /\ s_tmp' = [s_tmp EXCEPT ![s_arg.name] = Absent]
          /\ s_pc' = "returned"
          /\ s_ret' = TRUE
       \/ /\ s_pc' = "cleanup"
          /\ UNCHANGED <<s_files, s_tmp, s_ret>>
    /\ UNCHANGED <<s_arg, s_prev>>
    /\ UNCHANGED nots

\* lines 166-167: if temp_filepath.exists(): temp_filepath.unlink()
KeepTemp(tmp, name) == tmp
UnlinkTemp(tmp, name) == [tmp EXCEPT ![name] = Absent]

\* lines 163-168: except: remove the temp file if it exists, raise; when
\* temp_filepath.unlink() fails, its error is raised and the temp file stays
SCleanup ==
    /\ s_pc = "cleanup"
    /\ \/ s_tmp' = UnlinkTemp(s_tmp, s_arg.name)
       \/ /\ s_tmp[s_arg.name].exists
          /\ UNCHANGED s_tmp
    /\ s_pc' = "raised"
    /\ UNCHANGED <<s_files, s_arg, s_ret, s_prev>>
    /\ UNCHANGED nots

\* the process stops inside save; the directory stays as it is
SKill ==
    /\ s_pc \in {"check", "open", "write", "unlink", "rename", "cleanup"}
    /\ s_pc' = "killed"
    /\ UNCHANGED <<s_files, s_tmp, s_arg, s_ret, s_prev>>
    /\ UNCHANGED nots

SNext ==
    \/ SCall
    \/ SCheck
    \/ SOpenTmp
    \/ SWrite
    \/ SUnlink
    \/ SRename
    \/ SCleanup
    \/ SKill

-----------------------------------------------------------------------------
(* crawler/crawler.py: the checkpointing Crawler *)

\* The site.  A URL is a page number, the clean (normalize_url) form of its address;
\* -1 is a URL of another host.  Page p links to pages 2p+1 and 2p+2, to the start
\* page, to the broken page and to the other host; the pages of BrokenPages answer
\* with an error or with non-HTML content on every request.
StartUrl == 0
BrokenPages == {5}

LinksOf(p) ==
    SelectSeq(<<2 * p + 1, 2 * p + 2, StartUrl, CHOOSE b \in BrokenPages : TRUE, -1>>,
              LAMBDA u : u < SiteSize)

\* utils.is_valid_url(url, self.start): http(s) and the netloc of the start URL
IsValidUrl(u) == u >= 0

\* _fetch_page: the HTML, or None after the retries (False)
FetchPage(p) == p \notin BrokenPages

InQueue(q, u) == \E i \in 1..Len(q) : q[i] = u

\* discover_links, lines 182-206: every link that is valid, not visited and not
\* queued is appended
RECURSIVE DiscoverLinks(_, _, _)
DiscoverLinks(q, visited, links) ==
    IF links = <<>> THEN q
    ELSE LET u == Head(links)
         IN IF IsValidUrl(u) /\ u \notin visited /\ ~InQueue(q, u)
              THEN DiscoverLinks(Append(q, u), visited, Tail(links))
              ELSE DiscoverLinks(q, visited, Tail(links))

\* crawl, line 90: if len(self.visited) % 10 == 0
CheckpointEvery == 10

\* save_state, lines 144-148: the state written
Snapshot == [kind |-> "ok", visited |-> c_visited, queue |-> c_q]
NoFile == [kind |-> "none", visited |-> {}, queue |-> <<>>]
TornFile == [kind |-> "torn", visited |-> {}, queue |-> <<>>]

PageCaps == {3, 20}

QueueSet(q) == {q[i] : i \in 1..Len(q)}

\* Crawler.__init__ of the first run, no checkpoint file
CInit ==
    /\ c_file = NoFile
    /\ c_visited = {}
    /\ c_q = <<StartUrl>>
    /\ c_max \in PageCaps
    /\ c_pc = "load"
    /\ c_page = StartUrl
    /\ c_after = "loop"
    /\ c_run = 1
    /\ c_ever = {}
    /\ c_found = {StartUrl}
    /\ c_disc = {}
    /\ c_inflight = {}
    /\ c_popped = {}

CIdle ==
    /\ c_file = NoFile /\ c_visited = {} /\ c_q = <<>> /\ c_max = 0 /\ c_pc = "off"
    /\ c_page = StartUrl /\ c_after = "loop" /\ c_run = 0
    /\ c_ever = {} /\ c_found = {} /\ c_disc = {} /\ c_inflight = {} /\ c_popped = {}

\* load_state, lines 153-163; a file that is no JSON document raises JSONDecodeError,
\* which load_state does not catch and crawl calls outside its try
CLoad ==
    /\ c_pc = "load"
    /\ \/ /\ c_file.kind = "none"
          /\ c_pc' = "loop"
          /\ UNCHANGED <<c_visited, c_q>>
       \/ /\ c_file.kind = "ok"
          /\ c_visited' = c_file.visited
          /\ c_q' = c_file.queue
          /\ c_pc' = "loop"
       \/ /\ c_file.kind = "torn"
          /\ c_pc' = "crashed"
          /\ UNCHANGED <<c_visited, c_q>>
    /\ UNCHANGED <<c_file, c_max, c_page, c_after, c_run, c_ever, c_found, c_disc, c_inflight>>
    /\ UNCHANGED c_popped
    /\ UNCHANGED notc

\* line 69: while self.q and len(self.visited) < self.max_pages
LoopWhileQueue(q, visited, maxp) == q # <<>>
LoopTest(q, visited, maxp) == q # <<>> /\ Cardinality(visited) < maxp

\* lines 69-78: the loop test, the pop, the visited / valid test
CPop ==
    /\ c_pc = "loop"
    /\ IF LoopTest(c_q, c_visited, c_max)
         THEN /\ c_page' = Head(c_q)
              /\ c_q' = Tail(c_q)
              /\ c_popped' = c_popped \cup {Head(c_q)}
              /\ c_pc' = IF Head(c_q) \in c_visited \/ ~IsValidUrl(Head(c_q))
                           THEN "loop" ELSE "fetch"
         ELSE /\ c_pc' = "done"
              /\ UNCHANGED <<c_page, c_q, c_popped>>
    /\ UNCHANGED <<c_file, c_visited, c_max, c_after, c_run, c_ever, c_found, c_disc, c_inflight>>
    /\ UNCHANGED notc

\* lines 82-86: _fetch_page returns; visited.add(page) when it returned HTML
CFetch ==
    /\ c_pc = "fetch"
    /\ IF FetchPage(c_page)
         THEN /\ c_visited' = c_visited \cup {c_page}
              /\ c_ever' = c_ever \cup {c_page}
              /\ c_pc' = "discover"
         ELSE /\ c_pc' = "ckpt"
              /\ UNCHANGED <<c_visited, c_ever>>
    /\ UNCHANGED <<c_file, c_q, c_max, c_page, c_after, c_run, c_found, c_disc, c_inflight>>
    /\ UNCHANGED c_popped
    /\ UNCHANGED notc

\* line 87: discover_links appends the new links one at a time (line 206), or
\* save_markdown raises, or a KeyboardInterrupt arrives inside the loop of lines
\* 182-212 after the first k links were handled: the handler of crawl (lines 94-97)
\* saves the state with the links appended so far
CDiscover ==
    /\ c_pc = "discover"
    /\ \/ /\ c_q' = DiscoverLinks(c_q, c_visited, LinksOf(c_page))
          /\ c_found' = c_found \cup QueueSet(DiscoverLinks(c_q, c_visited, LinksOf(c_page)))
          /\ c_pc' = "ckpt"
          /\ UNCHANGED <<c_after, c_inflight>>
       \/ /\ c_pc' = "save_open"
          /\ c_after' = "raise"
          /\ UNCHANGED <<c_q, c_found, c_inflight>>
       \/ \E k \in 0..Len(LinksOf(c_page)) :
             /\ c_q' = DiscoverLinks(c_q, c_visited, SubSeq(LinksOf(c_page), 1, k))
             /\ c_found' = c_found \cup QueueSet(DiscoverLinks(c_q, c_visited,
                                                  SubSeq(LinksOf(c_page), 1, k)))
             /\ c_inflight' = {}
             /\ c_pc' = "save_open"
             /\ c_after' = "raise"
    /\ UNCHANGED <<c_file, c_visited, c_max, c_page, c_run, c_ever, c_disc>>
    /\ UNCHANGED c_popped
    /\ UNCHANGED notc

\* lines 90-92: the periodic checkpoint
CCheckpoint ==
    /\ c_pc = "ckpt"
    /\ c_pc' = IF Cardinality(c_visited) % CheckpointEvery = 0 THEN "save_open" ELSE "loop"
    /\ UNCHANGED <<c_file, c_visited, c_q, c_max, c_page, c_after, c_run,
                   c_ever, c_found, c_disc, c_inflight>>
    /\ UNCHANGED c_popped
    /\ UNCHANGED notc

\* an exception out of save_state: the periodic checkpoint (line 91) is inside the
\* try of crawl, whose handler is entered; a save_state called by a handler (lines
\* 96, 100) raises out of crawl
AfterSaveError(after) == IF after = "loop" THEN "save_error" ELSE "raise"

\* save_state, line 149: open('crawler_state.json', 'w') truncates the file, or
\* raises OSError
CSaveOpen ==
    /\ c_pc = "save_open"
    /\ \/ /\ c_file' = TornFile
          /\ c_pc' = "save_write"
       \/ /\ c_pc' = AfterSaveError(c_after)
          /\ UNCHANGED c_file
    /\ UNCHANGED <<c_visited, c_q, c_max, c_page, c_after, c_run, c_ever, c_found, c_disc, c_inflight>>
    /\ UNCHANGED c_popped
    /\ UNCHANGED notc

\* save_state, lines 150-151: json.dump and the close, or a write that raises
\* OSError and leaves a part of the document
CSaveWrite ==
    /\ c_pc = "save_write"
    /\ \/ /\ c_file' = Snapshot
          /\ c_disc' = c_found
          /\ c_pc' = c_after
       \/ /\ c_pc' = AfterSaveError(c_after)
          /\ UNCHANGED <<c_file, c_disc>>
    /\ UNCHANGED <<c_visited, c_q, c_max, c_page, c_after, c_run, c_ever, c_found, c_inflight>>
    /\ UNCHANGED c_popped
    /\ UNCHANGED notc

\* lines 98-101: except Exception, entered by the error of the periodic checkpoint:
\* logging.error, save_state again, then raise
CSaveError ==
    /\ c_pc = "save_error"
    /\ c_pc' = "save_open"
    /\ c_after' = "raise"
    /\ UNCHANGED <<c_file, c_visited, c_q, c_max, c_page, c_run, c_ever, c_found, c_disc,
                   c_inflight>>
    /\ UNCHANGED c_popped
    /\ UNCHANGED notc

\* lines 94-97: KeyboardInterrupt inside the try: save_state, then raise
CInterrupt ==
    /\ c_pc \in {"loop", "fetch", "discover", "ckpt", "save_open", "save_write"}
    /\ c_after = "loop"
    /\ c_inflight' = IF c_pc = "fetch" THEN {c_page} ELSE {}
    /\ c_pc' = "save_open"
    /\ c_after' = "raise"
    /\ UNCHANGED <<c_file, c_visited, c_q, c_max, c_page, c_run, c_ever, c_found, c_disc>>
    /\ UNCHANGED c_popped
    /\ UNCHANGED notc

\* lines 97-104: raise, finally: the process ends with the exception
CRaise ==
    /\ c_pc = "raise"
    /\ c_pc' = "exited"
    /\ UNCHANGED <<c_file, c_visited, c_q, c_max, c_page, c_after, c_run,
                   c_ever, c_found, c_disc, c_inflight>>
    /\ UNCHANGED c_popped
    /\ UNCHANGED notc

\* the process is killed
CKill ==
    /\ c_pc \in {"load", "loop", "fetch", "discover", "ckpt", "save_open", "save_write",
                "save_error", "raise"}
    /\ c_pc' = "dead"
    /\ UNCHANGED <<c_file, c_visited, c_q, c_max, c_page, c_after, c_run,
                   c_ever, c_found, c_disc, c_inflight>>
    /\ UNCHANGED c_popped
    /\ UNCHANGED notc

\* the crawler is run again: Crawler.__init__ (lines 35-45), then crawl
CRestart ==
    /\ c_pc \in {"dead", "exited", "crashed"}
    /\ c_run < MaxRuns
    /\ c_run' = c_run + 1
    /\ c_visited' = {}
    /\ c_q' = <<StartUrl>>
    /\ c_found' = c_found \cup {StartUrl}
    /\ c_page' = StartUrl
    /\ c_after' = "loop"
    /\ c_pc' = "load"
    /\ c_popped' = {}
    /\ UNCHANGED <<c_file, c_max, c_ever, c_disc, c_inflight>>
    /\ UNCHANGED notc

CNext ==
    \/ CLoad
    \/ CPop
    \/ CFetch
    \/ CDiscover
    \/ CCheckpoint
    \/ CSaveOpen
    \/ CSaveWrite
    \/ CSaveError
    \/ CInterrupt
    \/ CRaise
    \/ CKill
    \/ CRestart

-----------------------------------------------------------------------------
(* rag_crawler/crawler.py: WebCrawler, with robots_parser.py *)

\* The site http://e.c.  Every page carries the same links, and /a/b one more; /a is
\* served with a content type that is not text/html; robots.txt, when the site serves one, is
\*     User-agent: *
\*     Disallow: /p
SiteLinks == <<UrlAB, UrlA_B, UrlPyx, UrlPxy, UrlALogin, UrlA, UrlAVariant, UrlRoot,
               UrlLogin, UrlPdf>>
Disallowed == {<<"/", "p">>}

\* the links of a page, in document order
PageLinks(u) == IF u.path = UrlAB.path THEN SiteLinks \o <<UrlABC>> ELSE SiteLinks

IsHtml(u) == u.path # UrlA.path

\* the Markdown that extract and convert_to_markdown give for the page
PageBody(u) ==
    IF u.path = UrlA_B.path \/ u.path = UrlPyx.path THEN <<"y", "---">> ELSE <<"x">>

StartsWith(s, prefix) ==
    Len(s) >= Len(prefix) /\ SubSeq(s, 1, Len(prefix)) = prefix

\* urllib.robotparser: RobotFileParser.can_fetch for the rules above
RpCanFetch(u) == \A d \in Disallowed : ~StartsWith(u.path, d)

\* RobotsChecker.can_fetch: no parser cached (None) allows everything
AllowAll(cache, u) == TRUE
CanFetch(cache, u) == IF cache = "none" THEN TRUE ELSE RpCanFetch(u)

\* get_domain
GetDomain(u) == LowerStr(u.netloc)
\* the key of a domain in the rate limiter's maps
HostName(d) == IF d = HostEC THEN "e.c" ELSE "f.c"

\* is_valid_url (urlparse gives the scheme in lower case)
IsValidHttpUrl(u) == LowerStr(u.scheme) \in {StrHttp, StrHttps} /\ u.netloc # <<>>

\* is_same_domain
IsSameDomain(u1, u2) == LowerStr(u1.netloc) = LowerStr(u2.netloc)

\* URLQueue.add by the one thread of the crawler, on [queue, seen]
QueueAdd(st, u, depth) ==
    IF NormalizeUrl(u) \in st.seen THEN st
    ELSE [queue |-> Append(st.queue, [url |-> u, depth |-> depth]),
          seen |-> st.seen \cup {NormalizeUrl(u)}]

\* _discover_links, lines 309-325: the checks a link passes before it is added
LinkChecks(u) ==
    /\ IsValidHttpUrl(u)
    /\ IsSameDomain(u, UrlRoot)
    /\ GetUrlExtension(u) \in AllowedExtensions
    /\ \A p \in ExcludedPatterns : ~Contains(UrlString(NormalizeUrl(u)), p)

\* the links of the site that pass the checks (the checks depend on the link alone)
Harvestable == {u \in {PageLinks(UrlAB)[i] : i \in 1..Len(PageLinks(UrlAB))} : LinkChecks(u)}
PassesChecks(u) == u \in Harvestable

\* _discover_links: the links that pass the checks are added at depth + 1
RECURSIVE CrawlerDiscoverLinks(_, _, _)
CrawlerDiscoverLinks(st, links, depth) ==
    IF links = <<>> THEN st
    ELSE LET u == Head(links)
         IN IF PassesChecks(u)
              THEN CrawlerDiscoverLinks(QueueAdd(st, u, depth + 1), Tail(links), depth)
              ELSE CrawlerDiscoverLinks(st, Tail(links), depth)

\* _process_url, line 284: if depth < self.config.max_depth
HarvestAlways(depth) == TRUE
MayHarvest(depth) == depth < MaxDepth

NoStats == [crawled |-> 0, saved |-> 0, skipped |-> 0, failed |-> 0, errors |-> 0]

\* _process_url, lines 246 and 279: pages_failed += 1
CountFailed(st) == [st EXCEPT !.failed = @ + 1]
\* _process_url, lines 247 and 280, and crawl, line 203: one message is appended
\* to errors
AppendError(st) == [st EXCEPT !.errors = @ + 1]
\* _process_url, line 269: pages_crawled += 1
CountCrawled(st) == [st EXCEPT !.crawled = @ + 1]

\* _process_url, lines 272-275: pages_saved or pages_skipped by was_saved
CountSaved(st, was_saved) ==
    [st EXCEPT !.saved = IF was_saved THEN @ + 1 ELSE @,
               !.skipped = IF was_saved THEN @ ELSE @ + 1]
NoItem == [url |-> UrlRoot, depth |-> 0]
NoFirst == [failed |-> 0, errors |-> 0, robots |-> "unset", interrupted |-> FALSE]

\* the site answers a request for /a_b with a redirect to /p?y=2&x=1, which
\* session.get follows (allow_redirects=True, line 240): the response that
\* _process_url gets is the page of the target
Redirected(u) == u.path = UrlA_B.path
RedirectTarget(u) == UrlPyx
FinalUrl(u) == IF Redirected(u) THEN RedirectTarget(u) ELSE u
\* the redirects a session.get for u follows before it ends: all of them for a
\* response, fewer when a request fails on the way
Hops(u) == IF Redirected(u) THEN {0, 1} ELSE {0}

\* WebCrawler.__init__ for the first run: empty output directory, new URLQueue,
\* RateLimiter(config.rate_limit) and RobotsChecker (respect_robots_txt is True)
WInitWith(retries) ==
    /\ q_queue = <<>> /\ q_seen = {} /\ q_lock = 0
    /\ q_pc = [t \in Threads |-> "idle"] /\ q_call = [t \in Threads |-> NoCall]
    /\ q_log = <<>> /\ q_calls = 0
    /\ r_now = MaxDelay /\ r_default \in 0..MaxDelay /\ r_delays = [h \in Hosts |-> -1]
    /\ r_last = [h \in Hosts |-> 0] /\ r_lock = 0 /\ r_callers = {}
    /\ r_pc = [t \in Threads |-> "idle"] /\ r_loc = [t \in Threads |-> NoWait]
    /\ r_log = <<>>
    /\ w_pc = "init"
    /\ w_item = NoItem
    /\ w_robots = "unset"
    /\ w_stats = NoStats
    /\ w_run = 1
    /\ w_first = NoFirst
    /\ w_trace = <<>>
    /\ w_requested = {}
    /\ w_followed = {}
    /\ w_answer = "unasked"
    /\ w_reqs = <<>>
    /\ w_interrupted = FALSE
    /\ w_raised = FALSE
    /\ w_max_retries = retries

\* a crawler whose config.max_retries is 0, and one whose session retries
WInit == WInitWith(0)
WInitRetry == WInitWith(MaxFetchRetries)

WIdle ==
    /\ w_pc = "off" /\ w_item = NoItem /\ w_robots = "unset" /\ w_stats = NoStats
    /\ w_run = 0 /\ w_first = NoFirst
    /\ w_trace = <<>> /\ w_requested = {} /\ w_followed = {} /\ w_answer = "unasked"
    /\ w_reqs = <<>> /\ w_interrupted = FALSE /\ w_raised = FALSE /\ w_max_retries = 0

\* what no step of a crawl changes
WFrame ==
    /\ UNCHANGED <<w_run, w_first, w_max_retries>>
    /\ UNCHANGED notw

\* crawl, lines 165-171: new stats, the base URL is added at depth 0
WStart ==
    /\ w_pc = "init"
    /\ w_stats' = NoStats
    /\ LET st == QueueAdd([queue |-> q_queue, seen |-> q_seen], UrlRoot, 0)
       IN q_queue' = st.queue /\ q_seen' = st.seen
    /\ w_pc' = "get"
    /\ UNCHANGED <<w_item, w_robots, w_trace, w_requested, w_followed, w_answer, w_reqs>>
    /\ UNCHANGED <<w_interrupted, w_raised>>
    /\ UNCHANGED <<r_now, r_last, svars>>
    /\ WFrame

\* crawl, lines 176-185 and 205-216: get; None ends the loop and crawl returns the
\* stats; the depth limit
WGet ==
    /\ w_pc = "get"
    /\ IF q_queue = <<>>
         THEN /\ w_pc' = "done"
              /\ UNCHANGED <<q_queue, w_item, w_trace>>
         ELSE /\ q_queue' = Tail(q_queue)
              /\ w_item' = Head(q_queue)
              /\ w_trace' = <<>>
              /\ w_pc' = IF Head(q_queue).depth > MaxDepth THEN "get" ELSE "robots"
    /\ UNCHANGED <<w_robots, w_stats, w_requested, w_followed, w_answer, w_reqs>>
    /\ UNCHANGED <<w_interrupted, w_raised>>
    /\ UNCHANGED <<q_seen, r_now, r_last, svars>>
    /\ WFrame

\* _fetch_robots, lines 76-91: a 200 caches the parser; another status and a
\* RequestException cache None
CacheRules(answer) == "rules"
CacheOf(answer) == IF answer = "200" THEN "rules" ELSE "none"

\* _process_url, lines 228-230, with _fetch_robots: the first check of the run
\* sends the robots.txt request (requests.get, with no rate limiter) and caches what
\* it gives; later checks read the cache
WRobots ==
    /\ w_pc = "robots"
    /\ IF w_robots = "unset"
         THEN \E answer \in {"200", "404", "error"} :
                 /\ w_answer' = answer
                 /\ w_robots' = CacheOf(answer)
                 /\ w_reqs' = Append(w_reqs, r_now)
                 /\ w_pc' = IF CanFetch(CacheOf(answer), w_item.url) THEN "wait" ELSE "get"
         ELSE /\ w_pc' = IF CanFetch(w_robots, w_item.url) THEN "wait" ELSE "get"
              /\ UNCHANGED <<w_answer, w_robots, w_reqs>>
    /\ w_trace' = Append(w_trace, "robots")
    /\ UNCHANGED <<w_item, w_stats, w_requested, w_followed>>
    /\ UNCHANGED <<w_interrupted, w_raised>>
    /\ UNCHANGED <<q_queue, q_seen, r_now, r_last, svars>>
    /\ WFrame

\* rate_limiter.wait(domain) by the only caller: the time the sleep ends at
WokeAt(u) ==
    LET h == HostName(GetDomain(u))
    IN r_now + WaitTime(DelayOf(h), r_now, r_last[h])

\* _process_url, line 233: rate_limiter.wait(domain) by the only caller: it sleeps
\* WaitTime and records the time it returns at
WWait ==
    /\ w_pc = "wait"
    /\ r_now' = WokeAt(w_item.url)
    /\ r_last' = [r_last EXCEPT ![HostName(GetDomain(w_item.url))] = WokeAt(w_item.url)]
    /\ w_trace' = Append(w_trace, "wait")
    /\ w_pc' = "fetch"
    /\ UNCHANGED <<w_item, w_robots, w_stats, w_requested, w_followed, w_answer, w_reqs>>
    /\ UNCHANGED <<w_interrupted, w_raised>>
    /\ UNCHANGED <<q_queue, q_seen, svars>>
    /\ WFrame

\* urllib3's Retry(backoff_factor=1), lines 131-136: the sleep before the n-th retry
\* of a request; the first retry is sent at once
Backoff(n) == IF n <= 1 THEN 0 ELSE 2 ^ (n - 1)

\* the times of the requests for one URL sent from the time t: the first, and the j
\* retries the adapter makes, each after its backoff
RECURSIVE RequestTimes(_, _)
RequestTimes(t, j) ==
    IF j = 0 THEN <<t>>
    ELSE LET before == RequestTimes(t, j - 1)
         IN Append(before, before[Len(before)] + Backoff(j))

\* the times of the requests one session.get sends from the time t: the request
\* for the URL with its j retries and, when a redirect is followed (hop = 1), the
\* request for the target, sent as the redirect arrives, with its k retries
FetchTimes(t, j, hop, k) ==
    IF hop = 0 THEN RequestTimes(t, j)
    ELSE RequestTimes(t, j) \o RequestTimes(RequestTimes(t, j)[j + 1], k)

\* the retries sent in this run: the requests that are neither the robots.txt
\* request nor the first request for a URL
RetriesSent == Len(w_reqs) - 1 - Cardinality(w_requested) - Cardinality(w_followed)

\* the sleep of urllib3's Retry that follows the n-th retry of a request: the
\* backoff before the next retry, when the adapter has one left
SleepAfter(n) == IF n < w_max_retries THEN Backoff(n + 1) ELSE 0

\* session.get(url), lines 237-241, as far as its requests go: the request for the
\* URL, the retries of the adapter and the redirect it follows, none of them behind
\* rate_limiter.wait or can_fetch.  The call ends as its last request is answered;
\* a KeyboardInterrupt ends it there too, or inside the backoff sleep (time.sleep)
\* that follows the request, after any part of the sleep and before the retry is
\* sent
SessionGet(hop, interrupted) ==
    /\ w_requested' = w_requested \cup {w_item.url}
    /\ w_followed' = IF hop = 1 THEN w_followed \cup {RedirectTarget(w_item.url)}
                     ELSE w_followed
    /\ \E j \in 0..w_max_retries, k \in 0..(IF hop = 1 THEN w_max_retries ELSE 0) :
          /\ j + k > 0 => RetriesSent + j + k <= MaxRunRetries
          /\ w_reqs' = w_reqs \o FetchTimes(r_now, j, hop, k)
          /\ \E slept \in 0..(IF interrupted THEN SleepAfter(IF hop = 1 THEN k ELSE j) ELSE 0) :
                r_now' = FetchTimes(r_now, j, hop, k)[j + k + hop + 1] + slept

\* _process_url, lines 236-267: session.get; a RequestException is counted in
\* pages_failed (line 246), a response that is not text/html is dropped, an HTML
\* page goes to storage.save under the URL that was dequeued
WFetch ==
    /\ w_pc = "fetch"
    /\ w_trace' = Append(w_trace, "fetch")
    /\ \E hop \in Hops(w_item.url) :
          /\ SessionGet(hop, FALSE)
          /\ \/ /\ w_stats' = CountFailed(w_stats)
                /\ w_pc' = "failed"
                /\ UNCHANGED svars
             \/ /\ hop = 1 <=> Redirected(w_item.url)
                /\ ~IsHtml(FinalUrl(w_item.url))
                /\ w_pc' = "get"
                /\ UNCHANGED <<w_stats, svars>>
             \/ /\ hop = 1 <=> Redirected(w_item.url)
                /\ IsHtml(FinalUrl(w_item.url))
                /\ SaveEnter(w_item.url, PageBody(FinalUrl(w_item.url)), FALSE)
                /\ w_pc' = "saving"
                /\ UNCHANGED w_stats
    /\ UNCHANGED <<w_item, w_robots, w_answer>>
    /\ UNCHANGED <<w_interrupted, w_raised>>
    /\ UNCHANGED <<q_queue, q_seen, r_last>>
    /\ WFrame

\* _process_url, lines 269 and 277-279: save returned and pages_crawled is
\* incremented, or save raised and pages_failed is incremented
WSaved ==
    /\ w_pc = "saving"
    /\ s_pc \in {"returned", "raised"}
    /\ IF s_pc = "raised"
         THEN /\ w_stats' = CountFailed(w_stats)
              /\ w_pc' = "failed"
         ELSE /\ w_stats' = CountCrawled(w_stats)
              /\ w_pc' = "counted"
    /\ UNCHANGED <<w_item, w_robots, w_trace, w_requested, w_followed, w_answer, w_reqs>>
    /\ UNCHANGED <<w_interrupted, w_raised>>
    /\ UNCHANGED <<q_queue, q_seen, r_now, r_last, svars>>
    /\ WFrame

\* _process_url, lines 272-275 and 284: pages_saved or pages_skipped by was_saved;
\* the links are discovered when depth < max_depth
WCounted ==
    /\ w_pc = "counted"
    /\ w_stats' = CountSaved(w_stats, s_ret)
    /\ w_pc' = IF MayHarvest(w_item.depth) THEN "discover" ELSE "get"
    /\ UNCHANGED <<w_item, w_robots, w_trace, w_requested, w_followed, w_answer, w_reqs>>
    /\ UNCHANGED <<w_interrupted, w_raised>>
    /\ UNCHANGED <<q_queue, q_seen, r_now, r_last, svars>>
    /\ WFrame

\* _process_url, lines 247-248 and 280-281: the message is appended to errors and
\* _process_url returns
WFailed ==
    /\ w_pc = "failed"
    /\ w_stats' = AppendError(w_stats)
    /\ w_pc' = "get"
    /\ UNCHANGED <<w_item, w_robots, w_trace, w_requested, w_followed, w_answer, w_reqs>>
    /\ UNCHANGED <<w_interrupted, w_raised>>
    /\ UNCHANGED <<q_queue, q_seen, r_now, r_last, svars>>
    /\ WFrame

\* the frontier after _discover_links has gone through the first k links of the page
HarvestOf(k) ==
    CrawlerDiscoverLinks([queue |-> q_queue, seen |-> q_seen],
                         SubSeq(PageLinks(FinalUrl(w_item.url)), 1, k), w_item.depth)

\* _process_url, line 285: _discover_links, which runs outside the try blocks of
\* _process_url: an href that urljoin rejects (ValueError, as for "//[x") after the
\* first k links of the page raises into crawl
WDiscover ==
    /\ w_pc = "discover"
    /\ \/ /\ q_queue' = HarvestOf(Len(PageLinks(FinalUrl(w_item.url)))).queue
          /\ q_seen' = HarvestOf(Len(PageLinks(FinalUrl(w_item.url)))).seen
          /\ w_pc' = "get"
       \/ \E k \in 0..Len(PageLinks(FinalUrl(w_item.url))) :
             /\ q_queue' = HarvestOf(k).queue
             /\ q_seen' = HarvestOf(k).seen
             /\ w_pc' = "error"
    /\ UNCHANGED <<w_item, w_robots, w_stats, w_trace, w_requested, w_followed, w_answer, w_reqs>>
    /\ UNCHANGED <<w_interrupted, w_raised>>
    /\ UNCHANGED <<r_now, r_last, svars>>
    /\ WFrame

\* crawl, lines 201-216: the handler of crawl records the error, and crawl returns
\* the stats
WHandle ==
    /\ w_pc = "error"
    /\ w_stats' = AppendError(w_stats)
    /\ w_pc' = "done"
    /\ UNCHANGED <<w_item, w_robots, w_trace, w_requested, w_followed, w_answer, w_reqs>>
    /\ UNCHANGED <<w_interrupted, w_raised>>
    /\ UNCHANGED <<q_queue, q_seen, r_now, r_last, svars>>
    /\ WFrame

\* the crawl has returned its stats; the crawler is run again: WebCrawler.__init__
\* makes a new queue, rate limiter, robots cache, stats and ContentStorage over the
\* same output directory.  Of an interrupted run, w_first keeps that it was
\* interrupted
WAgain ==
    /\ w_pc = "done"
    /\ w_run < MaxRuns
    /\ w_run' = w_run + 1
    /\ w_first' = IF w_interrupted THEN [NoFirst EXCEPT !.interrupted = TRUE]
                  ELSE [failed |-> w_stats.failed, errors |-> w_stats.errors,
                        robots |-> w_robots, interrupted |-> FALSE]
    /\ q_queue' = <<>> /\ q_seen' = {}
    /\ r_last' = [h \in Hosts |-> 0]
    /\ w_robots' = "unset"
    /\ w_answer' = "unasked"
    /\ w_reqs' = <<>>
    /\ w_requested' = {}
    /\ w_followed' = {}
    /\ w_trace' = <<>>
    /\ w_item' = NoItem
    /\ w_pc' = "init"
    /\ w_stats' = NoStats
    /\ UNCHANGED r_now
    /\ s_pc' = "idle" /\ s_arg' = NoSave /\ s_ret' = FALSE /\ s_prev' = Absent
    /\ UNCHANGED <<s_files, s_tmp>>
    /\ w_interrupted' = FALSE
    /\ w_raised' = FALSE
    /\ UNCHANGED w_max_retries
    /\ UNCHANGED notw

\* the steps of a crawl between which a KeyboardInterrupt is raised
InterruptedAt == {"init", "get", "robots", "wait", "fetch", "saving", "counted", "failed",
                  "discover", "error"}

\* what the statement under way has done when the KeyboardInterrupt is raised in it:
\* nothing yet; queue.add of the base URL (line 171); the robots.txt request, with
\* nothing cached (robots_parser.py lines 70-74); a part of the sleep of
\* rate_limiter.wait, with no request recorded, or all of it, recorded; some of the
\* requests of session.get and a part of the backoff sleep that follows the last of
\* them; queue.add for the first k links of the page
\* (_discover_links); errors.append in the handler of crawl (line 203)
WInterruptAfter ==
    \/ /\ w_pc # "error"
       /\ UNCHANGED <<w_stats, w_requested, w_followed, w_reqs, q_queue, q_seen, r_now, r_last>>
    \/ /\ w_pc = "init"
       /\ LET st == QueueAdd([queue |-> q_queue, seen |-> q_seen], UrlRoot, 0)
          IN q_queue' = st.queue /\ q_seen' = st.seen
       /\ UNCHANGED <<w_stats, w_requested, w_followed, w_reqs, r_now, r_last>>
    \/ /\ w_pc = "robots" /\ w_robots = "unset"
       /\ w_reqs' = Append(w_reqs, r_now)
       /\ UNCHANGED <<w_stats, w_requested, w_followed, q_queue, q_seen, r_now, r_last>>
    \/ /\ w_pc = "wait"
       /\ \/ /\ r_now' \in r_now..WokeAt(w_item.url)
             /\ UNCHANGED r_last
          \/ /\ r_now' = WokeAt(w_item.url)
             /\ r_last' = [r_last EXCEPT ![HostName(GetDomain(w_item.url))] = WokeAt(w_item.url)]
       /\ UNCHANGED <<w_stats, w_requested, w_followed, w_reqs, q_queue, q_seen>>
    \/ /\ w_pc = "fetch"
       /\ \E hop \in Hops(w_item.url) : SessionGet(hop, TRUE)
       /\ UNCHANGED <<w_stats, q_queue, q_seen, r_last>>
    \/ /\ w_pc = "discover"
       /\ \E k \in 1..Len(PageLinks(FinalUrl(w_item.url))) :
             /\ q_queue' = HarvestOf(k).queue
             /\ q_seen' = HarvestOf(k).seen
       /\ UNCHANGED <<w_stats, w_requested, w_followed, w_reqs, r_now, r_last>>
    \/ /\ w_pc = "error"
       /\ \E appended \in BOOLEAN :
             w_stats' = IF appended THEN AppendError(w_stats) ELSE w_stats
       /\ UNCHANGED <<w_requested, w_followed, w_reqs, q_queue, q_seen, r_now, r_last>>

\* whether the KeyboardInterrupt leaves crawl: it does when it is raised outside
\* the try block (lines 165-171) or inside the handler (lines 202-203); it is caught
\* inside the loop; and when get has nothing left to return it is raised in get
\* and caught, or after the loop (lines 206-216) and leaves crawl
RaisedAt ==
    IF w_pc \in {"init", "error"} THEN {TRUE}
    ELSE IF w_pc = "get" /\ q_queue = <<>> THEN BOOLEAN
    ELSE {FALSE}

\* crawl, lines 198-199 and 205-216: a KeyboardInterrupt raised inside the loop is
\* caught by crawl, which logs a warning, closes the session and returns the stats;
\* the queue, the stats and the output directory stay as the interrupted statement
\* left them, and a save that was running is left where it was (storage.py line 162
\* catches Exception only).  Raised outside the try block (lines 165-171), inside
\* the handler (lines 202-203) or after the loop (lines 206-216), the
\* KeyboardInterrupt leaves crawl.  One KeyboardInterrupt is raised in a crawl
WInterrupt ==
    /\ w_pc \in InterruptedAt
    /\ w_pc' = "done"
    /\ w_interrupted' = TRUE
    /\ w_raised' \in RaisedAt
    /\ WInterruptAfter
    /\ UNCHANGED <<w_item, w_robots, w_trace, w_answer>>
    /\ s_pc' = "idle"
    /\ UNCHANGED <<s_files, s_tmp, s_arg, s_ret, s_prev>>
    /\ WFrame

\* one crawl; the steps of storage.save are steps of the crawl while _process_url
\* is in it
WRunNext ==
    \/ WStart
    \/ WGet
    \/ WRobots
    \/ WWait
    \/ WFetch
    \/ WSaved
    \/ WCounted
    \/ WFailed
    \/ WDiscover
    \/ WHandle
    \/ WInterrupt
    \/ w_pc = "saving" /\ SCheck
    \/ w_pc = "saving" /\ SOpenTmp
    \/ w_pc = "saving" /\ SWrite
    \/ w_pc = "saving" /\ SUnlink
    \/ w_pc = "saving" /\ SRename
    \/ w_pc = "saving" /\ SCleanup

\* a step of storage.save in which no file operation fails
Succeeds == s_pc' # "cleanup"

\* the first crawl and the crawl run again, their file operations succeeding
WNext ==
    \/ WStart
    \/ WGet
    \/ WRobots
    \/ WWait
    \/ WFetch
    \/ WSaved
    \/ WCounted
    \/ WFailed
    \/ WDiscover
    \/ WHandle
    \/ WInterrupt
    \/ w_pc = "saving" /\ SCheck
    \/ w_pc = "saving" /\ SOpenTmp /\ Succeeds
    \/ w_pc = "saving" /\ SWrite /\ Succeeds
    \/ w_pc = "saving" /\ SUnlink /\ Succeeds
    \/ w_pc = "saving" /\ SRename /\ Succeeds
    \/ WAgain

-----------------------------------------------------------------------------
(* The HTTP backends: one page fetch, with its retries *)

\* What the server does with a request: a 200 with text/html, a 200 with another
\* content type, no answer within the timeout, or an error status.
Answers == {"html", "pdf", "timeout", "503", "404", "401"}

\* rag_crawler/crawler.py line 134: status_forcelist of the Retry
StatusForcelist == {"429", "500", "502", "503", "504"}
\* crawler/crawler.py line 126: if e.response.status_code in [404, 403, 410]: break
NoRetryStatus == {"404", "403", "410"}

RECURSIVE SeqsOf(_, _)
SeqsOf(S, n) ==
    IF n = 0 THEN {<<>>}
    ELSE {Append(q, x) : q \in SeqsOf(S, n - 1), x \in S}

Fetched(ret, failed) == [ret |-> ret, failed |-> failed]

HInit ==
    /\ h_backend \in {"session", "fetch_page"}
    /\ h_max \in 1..MaxRetries
    /\ h_script \in SeqsOf(Answers, MaxRetries + 1)
    /\ h_sent = 0
    /\ h_pc = "request"
    /\ h_result = Fetched("unset", FALSE)

HIdle ==
    /\ h_backend = "session" /\ h_max = 0 /\ h_script = <<>> /\ h_sent = 0
    /\ h_pc = "off" /\ h_result = Fetched("unset", FALSE)

\* session.get sends a request (the first, or one after a retry's backoff);
\* _fetch_page line 110
HRequest ==
    /\ h_pc = "request"
    /\ h_sent' = h_sent + 1
    /\ h_pc' = "answer"
    /\ UNCHANGED <<h_backend, h_max, h_script, h_result>>
    /\ UNCHANGED noth

\* urllib3's Retry(total=max_retries): every retry takes one from total, and the
\* retries are exhausted when total falls below 0: after `sent` requests another one
\* is sent while sent <= total
RetryLeftBelow(sent, total) == sent < total
RetryLeft(sent, total) == sent <= total

\* WebCrawler._process_url lines 236-254 over the session of _create_session: the
\* adapter retries a timeout and a status of status_forcelist; with the retries
\* exhausted session.get raises a RequestException; raise_for_status raises for an
\* error status; a response that is not text/html is dropped without a failure
HSession ==
    /\ h_pc = "answer" /\ h_backend = "session"
    /\ LET a == h_script[h_sent]
       IN IF a = "timeout" \/ a \in StatusForcelist
            THEN IF RetryLeft(h_sent, h_max)
                   THEN h_pc' = "request" /\ UNCHANGED h_result
                   ELSE h_pc' = "done" /\ h_result' = Fetched("RequestException", TRUE)
            ELSE /\ h_pc' = "done"
                 /\ h_result' = CASE a = "html" -> Fetched("html", FALSE)
                                  [] a = "pdf" -> Fetched("not html", FALSE)
                                  [] OTHER -> Fetched("RequestException", TRUE)
    /\ UNCHANGED <<h_backend, h_max, h_script, h_sent>>
    /\ UNCHANGED noth

\* Crawler._fetch_page, lines 108-137: for attempt in range(max_retries); HTML is
\* returned; another content type and 404, 403, 410 break; a timeout, another HTTP
\* error and any other exception go to the next attempt; after the loop the error
\* "Failed to fetch ..." is logged and None is returned
HFetchPage ==
    /\ h_pc = "answer" /\ h_backend = "fetch_page"
    /\ LET a == h_script[h_sent]
       IN IF a = "html"
            THEN h_pc' = "done" /\ h_result' = Fetched("html", FALSE)
            ELSE IF a = "pdf" \/ a \in NoRetryStatus \/ h_sent >= h_max
                   THEN h_pc' = "done" /\ h_result' = Fetched("None", TRUE)
                   ELSE h_pc' = "request" /\ UNCHANGED h_result
    /\ UNCHANGED <<h_backend, h_max, h_script, h_sent>>
    /\ UNCHANGED noth

HNext ==
    \/ HRequest
    \/ HSession
    \/ HFetchPage

-----------------------------------------------------------------------------
(* link_extractor.py: LinkExtractor *)

\* A record of links.json is [source_url, links]: links stands for each of the
\* category lists (internal_links, pdf_links, ...), which extract fills and
\* deduplicate_links cleans in the same way.
LinkPages == {"u1", "u2"}
LinkValues == {"a", "b"}

RECURSIVE SeqsUpTo(_, _)
SeqsUpTo(S, n) == IF n = 0 THEN {<<>>} ELSE SeqsOf(S, n) \cup SeqsUpTo(S, n - 1)

LinkLists == SeqsUpTo(LinkValues, 2)
LinkRecords == [source_url : LinkPages, links : LinkLists]

InSeq(q, x) == \E i \in 1..Len(q) : q[i] = x

\* list(dict.fromkeys(value)): the first occurrence of every value, in order
RECURSIVE Unique(_)
Unique(q) ==
    IF q = <<>> THEN <<>>
    ELSE LET front == Unique(SubSeq(q, 1, Len(q) - 1))
         IN IF InSeq(front, q[Len(q)]) THEN front ELSE Append(front, q[Len(q)])

\* extract, lines 134-168: an href is appended to its category list unless the list
\* holds it
ExtractLinks(hrefs) == Unique(hrefs)

\* deduplicate_links, lines 320-335: unique_pages[source_url] = page keeps the place
\* of the first record of a source_url and the value of the last
UniquePages(all) ==
    LET firsts == SelectSeq([i \in 1..Len(all) |-> i],
                            LAMBDA i : \A j \in 1..(i - 1) : all[j].source_url # all[i].source_url)
        LastOf(u) == CHOOSE i \in 1..Len(all) :
                        /\ all[i].source_url = u
                        /\ \A j \in (i + 1)..Len(all) : all[j].source_url # u
    IN [k \in 1..Len(firsts) |-> all[LastOf(all[firsts[k]].source_url)]]

\* deduplicate_links, lines 338-352
UniqueLists(all) == [i \in 1..Len(all) |-> [all[i] EXCEPT !.links = Unique(@)]]

\* save, lines 242-255: the first record with this source_url is replaced, or the
\* record is appended
AppendRecord(all, rec) == Append(all, rec)
SaveRecord(all, rec) ==
    LET found == {i \in 1..Len(all) : all[i].source_url = rec.source_url}
    IN IF found = {} THEN Append(all, rec)
       ELSE [all EXCEPT ![CHOOSE i \in found : \A j \in found : i <= j] = rec]

LinksFile(recs) == [ok |-> TRUE, recs |-> recs]
TornLinksFile == [ok |-> FALSE, recs |-> <<>>]
NoLinkCall == [op |-> "none", url |-> "u1", before |-> <<>>]

\* links.json as earlier runs and earlier versions left it: a list of records,
\* repeated source_url and repeated links included, or a file that is no JSON
LInit ==
    /\ l_file \in {LinksFile(recs) : recs \in SeqsUpTo(LinkRecords, 2)} \cup {TornLinksFile}
    /\ l_all = <<>>
    /\ l_pc = "new"
    /\ l_n = 0
    /\ l_last = NoLinkCall

LIdle ==
    /\ l_file = LinksFile(<<>>) /\ l_all = <<>> /\ l_pc = "off" /\ l_n = 0
    /\ l_last = NoLinkCall

\* __init__, lines 103-111: load the file; a file that does not parse gives []
LLoad ==
    /\ l_pc = "new"
    /\ l_all' = IF l_file.ok THEN l_file.recs ELSE <<>>
    /\ l_pc' = "loaded"
    /\ UNCHANGED <<l_file, l_n, l_last>>
    /\ UNCHANGED notl

\* deduplicate_links, called by AsyncWebCrawler.__init__ right after the constructor
LDeduplicate ==
    /\ l_pc = "loaded"
    /\ LET pages == UniquePages(l_all)
           cleaned == UniqueLists(IF Len(pages) < Len(l_all) THEN pages ELSE l_all)
       IN /\ l_all' = cleaned
          /\ l_file' = LinksFile(cleaned)
    /\ l_pc' = "ready"
    /\ UNCHANGED <<l_n, l_last>>
    /\ UNCHANGED notl

\* extract(html, source_url) and save(links); the write of links.json may fail after
\* the file was opened for writing, and save logs the error
LSave ==
    /\ l_pc = "ready" /\ l_n < MaxSaves
    /\ \E u \in LinkPages, hrefs \in SeqsUpTo(LinkValues, 3) :
          LET rec == [source_url |-> u, links |-> ExtractLinks(hrefs)]
          IN /\ l_all' = SaveRecord(l_all, rec)
             /\ l_file' \in {LinksFile(SaveRecord(l_all, rec)), TornLinksFile}
             /\ l_last' = [op |-> "save", url |-> u, before |-> l_all]
    /\ l_n' = l_n + 1
    /\ UNCHANGED l_pc
    /\ UNCHANGED notl

\* the process ends and the crawler is started again over the same directory
LRestart ==
    /\ l_pc = "ready" /\ l_n > 0
    /\ l_pc' = "new"
    /\ l_all' = <<>>
    /\ l_n' = 0
    /\ l_last' = NoLinkCall
    /\ UNCHANGED l_file
    /\ UNCHANGED notl

LNext ==
    \/ LLoad
    \/ LDeduplicate
    \/ LSave
    \/ LRestart

-----------------------------------------------------------------------------
(* file_downloader.py: FileDownloader *)

\* A file URL is [dir, name]: http://e.c/<dir>/<name>; Path(parsed.path).name is name
FileUrl(dir, name) == [dir |-> dir, name |-> name]
DownloadUrls ==
    {FileUrl("x", <<"A">>), FileUrl("y", <<"A">>), FileUrl("x", <<"a">>),
     FileUrl("x", <<"a", ":", "b">>), FileUrl("x", <<"a", "_", "b">>)}

\* re.sub(r'[<>:"/\\|?*]', '_', filename)
CleanFilename(name) ==
    [i \in 1..Len(name) |->
        IF name[i] \in {"<", ">", ":", "\"", "/", "\\", "|", "?", "*"} THEN "_" ELSE name[i]]

DownloadNames == {CleanFilename(u.name) : u \in DownloadUrls}

\* The content of a file is "old" (an earlier run), "new" (a complete download of
\* this run) or "part" (a download that broke off).

NoDownload == [op |-> "none", url |-> FileUrl("x", <<"a">>),
               before |-> [n \in DownloadNames |-> "none"], done |-> {}, sent |-> FALSE]

\* downloads/ as earlier runs left it
DInit ==
    /\ d_disk \in [DownloadNames -> {"none", "old", "part"}]
    /\ d_downloaded = {}
    /\ d_files = {}
    /\ d_pc = "new"
    /\ d_n = 0
    /\ d_last = NoDownload

DIdle ==
    /\ d_disk = [n \in DownloadNames |-> "none"] /\ d_downloaded = {} /\ d_files = {}
    /\ d_pc = "off" /\ d_n = 0 /\ d_last = NoDownload

\* _load_existing_files: the lower-case names of the files of downloads/
LoadExistingFiles(disk) == {LowerStr(n) : n \in {m \in DownloadNames : disk[m] # "none"}}

\* deduplicate_files: of the files with the same content, the one with the least
\* ctime stays (any one of them here)
Deduplicated(disk) ==
    {[n \in DownloadNames |-> IF n \in kept THEN disk[n] ELSE "none"] :
        kept \in {k \in SUBSET {m \in DownloadNames : disk[m] # "none"} :
                     \A m \in DownloadNames :
                         disk[m] # "none" =>
                             \E n \in k : /\ disk[n] = disk[m]
                                          /\ \A n2 \in k : disk[n2] = disk[m] => n2 = n}}

\* FileDownloader.__init__, then deduplicate_files when AsyncWebCrawler made it
DStart ==
    /\ d_pc = "new"
    /\ \E disk \in {d_disk} \cup Deduplicated(d_disk) :
          /\ d_disk' = disk
          /\ d_files' = LoadExistingFiles(disk)
    /\ d_pc' = "ready"
    /\ UNCHANGED <<d_downloaded, d_n, d_last>>
    /\ UNCHANGED notd

\* filepath.exists()
NoFileExists(disk, name) == FALSE
FileExists(disk, name) == disk[name] # "none"

\* download_file(url): the server answers with the file ("ok"), with an error status
\* ("status"), or the body breaks off after the file was opened: iter_content raises
\* ("broken", as for a chunked body), or it ends without an exception ("short", as
\* for a body shorter than its Content-Length under a urllib3 that does not enforce
\* the length) and the call returns the path of the part written
DDownload ==
    /\ d_pc = "ready" /\ d_n < MaxDownloads
    /\ \E u \in DownloadUrls, answer \in {"ok", "status", "broken", "short"} :
          LET name == CleanFilename(u.name)
              Call(sent) == [op |-> "download", url |-> u, before |-> d_disk,
                             done |-> d_downloaded, sent |-> sent]
          IN IF u \in d_downloaded
               THEN /\ d_last' = Call(FALSE)
                    /\ UNCHANGED <<d_disk, d_downloaded, d_files>>
             ELSE IF LowerStr(name) \in d_files
               THEN /\ d_downloaded' = d_downloaded \cup {u}
                    /\ d_last' = Call(FALSE)
                    /\ UNCHANGED <<d_disk, d_files>>
             ELSE IF FileExists(d_disk, name)
               THEN /\ d_downloaded' = d_downloaded \cup {u}
                    /\ d_files' = d_files \cup {LowerStr(name)}
                    /\ d_last' = Call(FALSE)
                    /\ UNCHANGED d_disk
             ELSE /\ d_last' = Call(TRUE)
                  /\ d_disk' = CASE answer = "ok" -> [d_disk EXCEPT ![name] = "new"]
                                 [] answer \in {"broken", "short"}
                                      -> [d_disk EXCEPT ![name] = "part"]
                                 [] OTHER -> d_disk
                  /\ d_downloaded' = IF answer \in {"ok", "short"} THEN d_downloaded \cup {u}
                                     ELSE d_downloaded
                  /\ UNCHANGED d_files
    /\ d_n' = d_n + 1
    /\ UNCHANGED d_pc
    /\ UNCHANGED notd

\* the process ends and a new FileDownloader is made over the same directory
DRestart ==
    /\ d_pc = "ready" /\ d_n > 0
    /\ d_pc' = "new"
    /\ d_downloaded' = {}
    /\ d_files' = {}
    /\ d_n' = 0
    /\ d_last' = NoDownload
    /\ UNCHANGED d_disk
    /\ UNCHANGED notd

DNext ==
    \/ DStart
    \/ DDownload
    \/ DRestart

-----------------------------------------------------------------------------
(* browser_fetcher.py: BrowserFetcher.fetch_many *)

FetchUrls == {"u1", "u2"}
NotReturned == [returned |-> FALSE, raised |-> FALSE, results |-> <<>>]

\* fetch_many(urls, concurrency): the semaphore is made and a task is made for
\* every URL of the list (Semaphore(0) is a semaphore no task ever enters)
FInit ==
    /\ f_k \in 0..MaxConcurrency
    /\ f_urls \in SeqsUpTo(FetchUrls, MaxUrls)
    /\ f_sem = f_k
    /\ f_pc = [i \in 1..Len(f_urls) |-> "ready"]
    /\ f_fetched = [i \in 1..Len(f_urls) |-> 0]
    /\ f_res = [i \in 1..Len(f_urls) |-> [url |-> f_urls[i], result |-> "none"]]
    /\ f_ret = NotReturned

FIdle ==
    /\ f_k = 0 /\ f_urls = <<>> /\ f_sem = 0 /\ f_pc = <<>> /\ f_fetched = <<>>
    /\ f_res = <<>> /\ f_ret = NotReturned

\* Semaphore.acquire: it returns when the value is above 0
SemaphoreFree(value) == value > 0

\* fetch_with_limit: async with semaphore, then fetch(url) starts
FAcquire(i) ==
    /\ f_pc[i] = "ready"
    /\ SemaphoreFree(f_sem)
    /\ f_sem' = f_sem - 1
    /\ f_pc' = [f_pc EXCEPT ![i] = "fetching"]
    /\ f_fetched' = [f_fetched EXCEPT ![i] = @ + 1]
    /\ UNCHANGED <<f_k, f_urls, f_res, f_ret>>
    /\ UNCHANGED notf

\* fetch(url) returns its FetchResult (a page, or an error: the try block catches
\* the exceptions of the page load) and the semaphore is released
FFetched(i) ==
    /\ f_pc[i] = "fetching"
    /\ \E result \in {"page", "error"} :
          f_res' = [f_res EXCEPT ![i] = [url |-> f_urls[i], result |-> result]]
    /\ f_sem' = f_sem + 1
    /\ f_pc' = [f_pc EXCEPT ![i] = "done"]
    /\ UNCHANGED <<f_k, f_urls, f_fetched, f_ret>>
    /\ UNCHANGED notf

\* fetch(url) raises: start() is called before the try block (the browser cannot
\* be launched), or page.close() / context.close() raises in the finally clause;
\* the task ends with the exception and "async with" releases the semaphore
FFetchRaised(i) ==
    /\ f_pc[i] = "fetching"
    /\ f_sem' = f_sem + 1
    /\ f_pc' = [f_pc EXCEPT ![i] = "raised"]
    /\ UNCHANGED <<f_k, f_urls, f_fetched, f_res, f_ret>>
    /\ UNCHANGED notf

\* asyncio.gather(*tasks): the results of the tasks, in the order of urls, once
\* every task has returned
FGather ==
    /\ ~f_ret.returned /\ ~f_ret.raised
    /\ \A i \in 1..Len(f_urls) : f_pc[i] = "done"
    /\ f_ret' = [returned |-> TRUE, raised |-> FALSE, results |-> f_res]
    /\ UNCHANGED <<f_k, f_urls, f_sem, f_pc, f_fetched, f_res>>
    /\ UNCHANGED notf

\* asyncio.gather(*tasks) without return_exceptions: the first exception of a task
\* is raised to the caller of fetch_many at once; the other tasks are not
\* cancelled and run on while the event loop does
FGatherRaise ==
    /\ ~f_ret.returned /\ ~f_ret.raised
    /\ \E i \in 1..Len(f_urls) : f_pc[i] = "raised"
    /\ f_ret' = [returned |-> FALSE, raised |-> TRUE, results |-> <<>>]
    /\ UNCHANGED <<f_k, f_urls, f_sem, f_pc, f_fetched, f_res>>
    /\ UNCHANGED notf

FNext ==
    \/ \E i \in 1..Len(f_urls) : FAcquire(i)
    \/ \E i \in 1..Len(f_urls) : FFetched(i)
    \/ \E i \in 1..Len(f_urls) : FFetchRaised(i)
    \/ FGather
    \/ FGatherRaise

-----------------------------------------------------------------------------
(* url_utils.py: normalize_url and is_same_domain on URL strings *)

\* The input URLs: scheme and netloc, a path with parameters, a query or a fragment
UrlHeads ==
    {<<"h", "t", "t", "p", ":", "/", "/", "e", ".", "c">>,
     <<"H", "T", "T", "P", ":", "/", "/", "E", ".", "c", ":", "8", "0">>,
     <<"h", "t", "t", "p", "s", ":", "/", "/", "e", ".", "c", ":", "4", "4", "3">>,
     <<"h", "t", "t", "p", ":", "/", "/", "e", ".", "c", ":", "4", "4", "3">>}
UrlTails == {<<>>} \cup {<<"/">> \o t : t \in SeqsUpTo({"/", "a", ";"}, MaxTail - 1)}
UrlEnds == {<<>>, <<"?", "y", "=", "2", "&", "x", "=", "1">>, <<"#", "x">>}

NInit ==
    /\ n_u \in {h \o t \o e : h \in UrlHeads, t \in UrlTails, e \in UrlEnds}
    /\ n_v \in UrlHeads
    /\ n_out = <<>>
    /\ n_same = "unset"

NIdle == n_u = <<>> /\ n_v = <<>> /\ n_out = <<>> /\ n_same = "off"

\* normalize_url(u), then normalize_url of the result
NNormalize ==
    /\ n_u # <<>> /\ Len(n_out) < 2
    /\ n_out' = Append(n_out, NormalizeUrlString(IF n_out = <<>> THEN n_u ELSE n_out[Len(n_out)]))
    /\ UNCHANGED <<n_u, n_v, n_same>>
    /\ UNCHANGED notn

\* is_same_domain(u, v)
NSameDomain ==
    /\ n_same = "unset"
    /\ n_same' = IF IsSameDomain(UrlParse(n_u), UrlParse(n_v)) THEN "yes" ELSE "no"
    /\ UNCHANGED <<n_u, n_v, n_out>>
    /\ UNCHANGED notn

NNext ==
    \/ NNormalize
    \/ NSameDomain

-----------------------------------------------------------------------------
(* robots_parser.py: RobotsChecker *)

\* the URLs the checker is asked about: one host under three spellings, and another
\* host; the robots.txt of a host, when it is served, disallows Disallowed and
\* declares the crawl-delay RobotsCrawlDelay
HostFC == <<"f", ".", "c">>
RobotsNetlocs == {HostEC, <<"E", ".", "c">>, <<"e", ".", "c", ":", "8", "0">>, HostFC}
RobotsUrls == {Url(StrHttp, n, p, <<>>, <<>>) : n \in RobotsNetlocs, p \in {UrlA.path, UrlPyx.path}}
RobotsCrawlDelay == MaxDelay

NoRobotsCall == [op |-> "none", url |-> UrlRoot, result |-> "none"]

PInit ==
    /\ p_cache = [n \in RobotsNetlocs |-> "unset"]
    /\ p_reqs = <<>>
    /\ p_last = NoRobotsCall
    /\ p_clears = 0

PIdle == PInit

\* _fetch_robots, lines 61-91: the cache is looked up under urlparse(url).netloc; a
\* miss requests robots.txt and caches the parser (200) or None (another status, a
\* RequestException)
CanonicalKey(u) == NormalizeUrl(u).netloc
NetlocKey(u) == u.netloc
\* _get_robots_url, lines 49-50
GetRobotsUrl(u) ==
    Url(u.scheme, u.netloc, <<"/", "r", "o", "b", "o", "t", "s", ".", "t", "x", "t">>, <<>>, <<>>)
FetchRobots(cache, reqs, u, answer) ==
    IF cache[NetlocKey(u)] # "unset"
      THEN [cache |-> cache, reqs |-> reqs, rp |-> cache[NetlocKey(u)]]
      ELSE [cache |-> [cache EXCEPT ![NetlocKey(u)] = CacheOf(answer)],
            reqs |-> Append(reqs, GetRobotsUrl(u)),
            rp |-> CacheOf(answer)]

\* can_fetch(url), lines 102-108
PCanFetch ==
    \E u \in RobotsUrls, answer \in {"200", "404", "error"} :
        LET f == FetchRobots(p_cache, p_reqs, u, answer)
        IN /\ Len(f.reqs) <= MaxRobotsReqs
           /\ p_cache' = f.cache
           /\ p_reqs' = f.reqs
           /\ p_last' = [op |-> "can_fetch", url |-> u,
                         result |-> IF CanFetch(f.rp, u) THEN "yes" ELSE "no"]
           /\ UNCHANGED p_clears
           /\ UNCHANGED notp

\* get_crawl_delay(url), lines 119-128: the crawl-delay of the rules, None without
\* rules (-1)
CrawlDelayOf(rp) == IF rp = "rules" THEN RobotsCrawlDelay ELSE -1

PGetCrawlDelay ==
    \E u \in RobotsUrls, answer \in {"200", "404", "error"} :
        LET f == FetchRobots(p_cache, p_reqs, u, answer)
        IN /\ Len(f.reqs) <= MaxRobotsReqs
           /\ p_cache' = f.cache
           /\ p_reqs' = f.reqs
           /\ p_last' = [op |-> "get_crawl_delay", url |-> u, result |-> CrawlDelayOf(f.rp)]
           /\ UNCHANGED p_clears
           /\ UNCHANGED notp

\* clear_cache(), lines 130-132: self._cache.clear()
PClearCache ==
    /\ p_clears < MaxClears
    /\ p_cache' = [n \in RobotsNetlocs |-> "unset"]
    /\ p_last' = [op |-> "clear_cache", url |-> UrlRoot, result |-> "none"]
    /\ p_clears' = p_clears + 1
    /\ UNCHANGED p_reqs
    /\ UNCHANGED notp

PNext ==
    \/ PCanFetch
    \/ PGetCrawlDelay
    \/ PClearCache

-----------------------------------------------------------------------------
(* file_downloader.py: FileDownloader.deduplicate_files *)

\* a file of downloads/: its content, the time it was created (born) and its
\* st_ctime, the time of the last change of its inode (chmod, rename, write), which
\* is the creation time only for a file that was never touched again
Gone == [content |-> "none", ctime |-> 0, born |-> 0]
Contents == {"A", "B"}
DiskFiles ==
    {f \in [content : Contents, ctime : 1..MaxCtime, born : 1..MaxCtime] : f.born <= f.ctime}

Present(disk) == {n \in DownloadNames : disk[n].content # "none"}

\* downloads/ as earlier runs left it, and a FileDownloader made over it
GInit ==
    /\ g_disk \in [DownloadNames -> DiskFiles \cup {Gone}]
    /\ g_files = {LowerStr(n) : n \in Present(g_disk)}
    /\ g_before = g_disk
    /\ g_ret = -1
    /\ g_pass = 0
    /\ g_errs = 0

GIdle ==
    /\ g_disk = [n \in DownloadNames |-> Gone] /\ g_files = {} /\ g_before = g_disk
    /\ g_ret = -1 /\ g_pass = 0 /\ g_errs = 0

\* hashlib.md5 of the bytes of a file: equal for equal contents, different for the
\* contents of the model
Md5(content) == content

\* lines 231-234: the files of downloads/ sorted by st_ctime; sorted is stable, so
\* files with equal st_ctime come in the order glob gave them (any order)
SortedByCtime(disk) ==
    {s \in [1..Cardinality(Present(disk)) -> Present(disk)] :
        /\ \A i, j \in DOMAIN s : i # j => s[i] # s[j]
        /\ \A i, j \in DOMAIN s : i < j => disk[s[i]].ctime <= disk[s[j]].ctime}

\* what the file system does to the files of one pass: "ok", "read" (open or read
\* raises, line 240) or "unlink" (unlink raises, line 249)
FileFaults == [DownloadNames -> {"ok", "read", "unlink"}]

\* lines 236-255: the loop over the sorted files: a file whose hash was seen is
\* unlinked and counted, another one is remembered under its hash; an exception
\* while a file is read or unlinked is logged and the loop goes on with the next
\* file (except Exception, lines 254-255), the file staying where it is
RECURSIVE DedupLoop(_, _, _, _, _, _)
DedupLoop(files, hashes, disk, removed, fault, errs) ==
    IF files = <<>> THEN [disk |-> disk, removed |-> removed, errs |-> errs]
    ELSE LET f == Head(files)
             h == Md5(disk[f].content)
         IN IF fault[f] = "read"
              THEN DedupLoop(Tail(files), hashes, disk, removed, fault, errs + 1)
            ELSE IF h \in hashes
              THEN IF fault[f] = "unlink"
                     THEN DedupLoop(Tail(files), hashes, disk, removed, fault, errs + 1)
                     ELSE DedupLoop(Tail(files), hashes, [disk EXCEPT ![f] = Gone],
                                    removed + 1, fault, errs)
              ELSE DedupLoop(Tail(files), hashes \cup {h}, disk, removed, fault, errs)

\* deduplicate_files, lines 218-262, with the refresh of _downloaded_files
GDeduplicate ==
    /\ g_pass < 2
    /\ \E files \in SortedByCtime(g_disk), fault \in FileFaults :
          LET out == DedupLoop(files, {}, g_disk, 0, fault, 0)
          IN /\ g_disk' = out.disk
             /\ g_ret' = out.removed
             /\ g_errs' = out.errs
             /\ g_files' = {LowerStr(n) : n \in Present(out.disk)}
    /\ g_before' = g_disk
    /\ g_pass' = g_pass + 1
    /\ UNCHANGED notg

GNext ==
    \/ GDeduplicate

-----------------------------------------------------------------------------
(* browser_fetcher.py: BrowserFetcher.fetch and _scroll_page *)

\* line 95: viewport_height = 1080; line 101: current += viewport_height // 2
ViewportHeight == 1080
ScrollStep == ViewportHeight \div 2

\* the pages: the scrollHeight after the load, the pixels the next scroll steps add
\* (lazy loading; the pattern repeats), and the number of steps that add them: a
\* finite feed, or -1 for a page that loads more for ever
Pages ==
    {[height |-> h, growth |-> g, feed |-> f] :
        h \in {0, 500, ViewportHeight, 2000},
        g \in {<<0>>, <<270>>, <<ScrollStep + 270, 270>>},
        f \in (0..MaxFeed) \cup {-1}}

BInit ==
    /\ b_pc = "goto"
    /\ b_page \in Pages
    /\ b_left = 0
    /\ b_result = "none"

BIdle ==
    /\ b_pc = "off" /\ b_page = [height |-> 0, growth |-> <<0>>, feed |-> 0]
    /\ b_left = 0 /\ b_result = "none"

\* lines 285-297: fetch ends through its finally clause, which closes the page and
\* the context: the result of the try block or of its handlers is returned, or
\* page.close() / context.close() raises and fetch raises with no result
Finally(result) == {result, "raised"}

\* lines 220-246: start() when there is no browser, which is called before the try
\* block and whose exception leaves fetch ("nobrowser"); new_context, new_page,
\* page.goto(url, timeout=self.timeout): a response, None, PlaywrightTimeout or
\* another exception
BGoto ==
    /\ b_pc = "goto"
    /\ \E outcome \in {"ok", "noresponse", "timeout", "error", "nobrowser"} :
          IF outcome = "ok" THEN b_pc' = "idle" /\ UNCHANGED b_result
          ELSE IF outcome = "nobrowser" THEN b_pc' = "done" /\ b_result' = "raised"
          ELSE b_pc' = "done" /\ b_result' \in Finally(outcome)
    /\ UNCHANGED <<b_left, b_page>>
    /\ UNCHANGED notb

\* lines 249-252: wait_for_load_state("networkidle", timeout=10000); a timeout is
\* caught, another exception ends fetch with the error result (line 289)
BNetworkIdle ==
    /\ b_pc = "idle"
    /\ \/ b_pc' = "scroll_start" /\ UNCHANGED b_result
       \/ b_pc' = "done" /\ b_result' \in Finally("error")
    /\ UNCHANGED <<b_left, b_page>>
    /\ UNCHANGED notb

\* _scroll_page, lines 94-97: height = scrollHeight; current = 0
BScrollStart ==
    /\ b_pc = "scroll_start"
    /\ b_left' = b_page.height - 0
    /\ b_pc' = "scroll"
    /\ UNCHANGED <<b_page, b_result>>
    /\ UNCHANGED notb

\* what a scroll step adds to scrollHeight, and the feed left after it
Growth(page) == IF page.feed = 0 THEN 0 ELSE Head(page.growth)
Scrolled(page) ==
    IF page.feed = 0 THEN page
    ELSE [page EXCEPT !.growth = Append(Tail(@), Head(@)),
                      !.feed = IF @ > 0 THEN @ - 1 ELSE @]

\* _scroll_page, line 98: while current < height
LoopEnds(left) == left <= 0

\* _scroll_page, lines 98-102: one iteration: scrollTo(0, current), wait 200 ms,
\* current += viewport_height // 2, height = scrollHeight
BScrollStep ==
    /\ b_pc = "scroll"
    /\ ~LoopEnds(b_left)
    /\ b_left' = b_left + Growth(b_page) - ScrollStep
    /\ b_page' = Scrolled(b_page)
    /\ UNCHANGED <<b_pc, b_result>>
    /\ UNCHANGED notb

\* _scroll_page, lines 107-108: an evaluate or a wait of the loop raised: the
\* exception is caught and logged
BScrollFail ==
    /\ b_pc = "scroll"
    /\ ~LoopEnds(b_left)
    /\ b_pc' = "settle"
    /\ UNCHANGED <<b_left, b_page, b_result>>
    /\ UNCHANGED notb

\* _scroll_page, lines 104-105: the loop is over: scroll to the top, wait 500 ms
BScrollEnd ==
    /\ b_pc = "scroll"
    /\ LoopEnds(b_left)
    /\ b_pc' = "settle"
    /\ UNCHANGED <<b_left, b_page, b_result>>
    /\ UNCHANGED notb

\* lines 258-264: wait_for_timeout(wait_after_load); wait_for_selector(...,
\* timeout=3000), whose timeout is caught; another exception ends fetch with the
\* error result (line 289)
BSettle ==
    /\ b_pc = "settle"
    /\ \/ b_pc' = "content" /\ UNCHANGED b_result
       \/ b_pc' = "done" /\ b_result' \in Finally("error")
    /\ UNCHANGED <<b_left, b_page>>
    /\ UNCHANGED notb

\* lines 266-297: page.url, page.content(), _extract_content_js, the FetchResult; an
\* exception gives the error result; the finally clause
BContent ==
    /\ b_pc = "content"
    /\ b_pc' = "done"
    /\ b_result' \in Finally("ok") \cup Finally("error")
    /\ UNCHANGED <<b_left, b_page>>
    /\ UNCHANGED notb

BNext ==
    \/ BGoto
    \/ BNetworkIdle
    \/ BScrollStart
    \/ BScrollStep
    \/ BScrollFail
    \/ BScrollEnd
    \/ BSettle
    \/ BContent

-----------------------------------------------------------------------------
(* The specifications *)

\* URLQueue shared by two threads
InitQueue == QInit /\ RIdle /\ SIdle /\ CIdle /\ WIdle /\ HIdle /\ LIdle /\ DIdle /\ FIdle /\ NIdle /\ PIdle /\ GIdle /\ BIdle
SpecQueue == InitQueue /\ [][QNext]_vars

\* RateLimiter with one sequential caller (the WebCrawler loop)
InitRateSeq == QIdle /\ RInitWith({1}) /\ SIdle /\ CIdle /\ WIdle /\ HIdle /\ LIdle /\ DIdle /\ FIdle /\ NIdle /\ PIdle /\ GIdle /\ BIdle
SpecRateSeq == InitRateSeq /\ [][RNext]_vars

\* RateLimiter with two concurrent callers
InitRate == QIdle /\ RInitWith(Threads) /\ SIdle /\ CIdle /\ WIdle /\ HIdle /\ LIdle /\ DIdle /\ FIdle /\ NIdle /\ PIdle /\ GIdle /\ BIdle
SpecRate == InitRate /\ [][RNext]_vars

\* MarkdownStorage.save called again and again, with failures and process stops
InitStore == QIdle /\ RIdle /\ SInit /\ CIdle /\ WIdle /\ HIdle /\ LIdle /\ DIdle /\ FIdle /\ NIdle /\ PIdle /\ GIdle /\ BIdle
SpecStore == InitStore /\ [][SNext]_vars

\* the checkpointing Crawler, interrupted, killed and started again
InitCkpt == QIdle /\ RIdle /\ SIdle /\ CInit /\ WIdle /\ HIdle /\ LIdle /\ DIdle /\ FIdle /\ NIdle /\ PIdle /\ GIdle /\ BIdle
SpecCkpt == InitCkpt /\ [][CNext]_vars

\* one crawl by WebCrawler over the site into an empty output directory, with
\* every failure of a request and of a file operation, and a KeyboardInterrupt
InitCrawl == WInit /\ SInit /\ CIdle /\ HIdle /\ LIdle /\ DIdle /\ FIdle /\ NIdle /\ PIdle /\ GIdle /\ BIdle
SpecCrawl == InitCrawl /\ [][WRunNext]_vars
\* the same, with the crawl running on as long as it has a step to take: every
\* request has a timeout and every sleep ends
SpecCrawlFair == InitCrawl /\ [][WRunNext]_vars /\ WF_vars(WRunNext)
\* one crawl whose session retries its requests
InitCrawlRetry == WInitRetry /\ SInit /\ CIdle /\ HIdle /\ LIdle /\ DIdle /\ FIdle /\ NIdle /\ PIdle /\ GIdle /\ BIdle
SpecCrawlRetry == InitCrawlRetry /\ [][WRunNext]_vars
\* a crawl, and a crawl by a new WebCrawler over the output directory the first one
\* left, on a file system whose operations succeed
SpecRecrawl == InitCrawl /\ [][WNext]_vars

\* one page fetch by each HTTP backend, against every server script
InitHttp == QIdle /\ RIdle /\ SIdle /\ CIdle /\ WIdle /\ HInit /\ LIdle /\ DIdle /\ FIdle /\ NIdle /\ PIdle /\ GIdle /\ BIdle
SpecHttp == InitHttp /\ [][HNext]_vars

\* LinkExtractor from any links.json: start-up, saves, and start-up again
InitLinks == QIdle /\ RIdle /\ SIdle /\ CIdle /\ WIdle /\ HIdle /\ LInit /\ DIdle /\ FIdle /\ NIdle /\ PIdle /\ GIdle /\ BIdle
SpecLinks == InitLinks /\ [][LNext]_vars

\* FileDownloader over any downloads directory: start-up, downloads, start-up again
InitDownload == QIdle /\ RIdle /\ SIdle /\ CIdle /\ WIdle /\ HIdle /\ LIdle /\ DInit /\ FIdle /\ NIdle /\ PIdle /\ GIdle /\ BIdle
SpecDownload == InitDownload /\ [][DNext]_vars

\* one fetch_many call, for every list of URLs and every concurrency
InitFetchMany == QIdle /\ RIdle /\ SIdle /\ CIdle /\ WIdle /\ HIdle /\ LIdle /\ DIdle /\ FInit /\ NIdle /\ PIdle /\ GIdle /\ BIdle
SpecFetchMany == InitFetchMany /\ [][FNext]_vars

\* normalize_url and is_same_domain applied to the input URLs
InitUrls == QIdle /\ RIdle /\ SIdle /\ CIdle /\ WIdle /\ HIdle /\ LIdle /\ DIdle /\ FIdle /\ NInit /\ PIdle /\ GIdle /\ BIdle
SpecUrls == InitUrls /\ [][NNext]_vars

\* RateLimiter with two concurrent callers of all its methods, and interrupted sleeps
InitRateOps == QIdle /\ ROpsInit /\ SIdle /\ CIdle /\ WIdle /\ HIdle /\ LIdle /\ DIdle /\ FIdle /\ NIdle /\ PIdle /\ GIdle /\ BIdle
SpecRateOps == InitRateOps /\ [][ROpsNext]_vars

\* RobotsChecker asked about URLs of two hosts, one of them spelled three ways
InitRobots == QIdle /\ RIdle /\ SIdle /\ CIdle /\ WIdle /\ HIdle /\ LIdle /\ DIdle /\ FIdle /\ NIdle /\ PInit /\ GIdle /\ BIdle
SpecRobots == InitRobots /\ [][PNext]_vars

\* deduplicate_files over any downloads directory, and a second pass after it
InitDedup == QIdle /\ RIdle /\ SIdle /\ CIdle /\ WIdle /\ HIdle /\ LIdle /\ DIdle /\ FIdle /\ NIdle /\ PIdle /\ GInit /\ BIdle
SpecDedup == InitDedup /\ [][GNext]_vars

\* one BrowserFetcher.fetch of every page; the event loop runs the coroutine as long
\* as it has a step to take, and every wait with a timeout ends
InitBrowser == QIdle /\ RIdle /\ SIdle /\ CIdle /\ WIdle /\ HIdle /\ LIdle /\ DIdle /\ FIdle /\ NIdle /\ PIdle /\ GIdle /\ BInit
FairBrowser ==
    /\ WF_vars(BGoto) /\ WF_vars(BNetworkIdle) /\ WF_vars(BScrollStart)
    /\ WF_vars(BScrollStep) /\ WF_vars(BScrollEnd) /\ WF_vars(BSettle) /\ WF_vars(BContent)
SpecBrowser == InitBrowser /\ [][BNext]_vars /\ FairBrowser

-----------------------------------------------------------------------------
(* C1 *)

\* the positions of the log whose event is ev and whose URL has canonical form c
LogAt(ev, c) == {i \in 1..Len(q_log) : q_log[i].ev = ev /\ NormalizeUrl(q_log[i].url) = c}

CanonicalUrls == {NormalizeUrl(u) : u \in QueueUrls}

\* C1: under every interleaving of add, get and mark_seen, a canonical URL is
\* appended to the queue at most once and returned by get at most once; a returned
\* add returned True exactly when that call appended; and no append of a URL
\* follows a mark_seen of the same canonical URL.
C1_FrontierUnique ==
    /\ \A c \in CanonicalUrls :
          /\ Cardinality(LogAt("append", c)) <= 1
          /\ Cardinality(LogAt("get", c)) <= 1
          /\ \A i \in LogAt("mark", c), j \in LogAt("append", c) : j < i
    /\ \A t \in Threads :
          (q_call[t].op = "add" /\ q_call[t].ret # "unset") =>
             (q_call[t].ret = "True" <=>
                \E i \in 1..Len(q_log) :
                    q_log[i].ev = "append" /\ q_log[i].by = t /\ q_log[i].n = q_call[t].n)

\* two threads added two spellings of one canonical URL: one add returned True and
\* the other False, and the URL came out of get
C1_Witness ==
    /\ q_call[1].op = "add" /\ q_call[2].op = "add"
    /\ q_call[1].url # q_call[2].url
    /\ q_call[1].norm = q_call[2].norm
    /\ q_call[1].ret = "True" /\ q_call[2].ret = "False"
    /\ LogAt("get", q_call[1].norm) # {}

-----------------------------------------------------------------------------
(* C3, C4 *)

\* every two requests recorded for one host are at least the host's delay apart
Spaced ==
    \A i, j \in 1..Len(r_log) :
        (i < j /\ r_log[i].host = r_log[j].host) =>
            r_log[j].time - r_log[i].time >= DelayOf(r_log[i].host)

\* C3: with a single sequential caller, the request times two consecutive
\* wait(host) calls record differ by at least the delay configured for the host,
\* and the requests are recorded in the order of the calls (the dequeue order).
C3_SequentialSpacing ==
    /\ Spaced
    /\ \A i \in 1..Len(r_log) : r_log[i].n = i

\* the single caller called wait twice for one host with a positive delay, and the
\* second call had to sleep
C3_Witness ==
    \E i, j \in 1..Len(r_log) :
        /\ i < j /\ r_log[i].host = r_log[j].host
        /\ DelayOf(r_log[i].host) > 0 /\ r_log[j].waited > 0

\* C4: with concurrent callers the request times recorded for one host are still
\* at least the host's delay apart (the claim as stated; the code does not keep it).
C4_ConcurrentSpacing == Spaced

-----------------------------------------------------------------------------
(* C5, C7 *)

\* the body of a page file: the lines after the closing "---" and the blank line
BodyOf(text) ==
    LET e == EndOfFrontMatter(text)
    IN [i \in 1..(Len(text) - e - 1) |-> text[e + 1 + i].text]

\* C5: after any sequence of saves, successful, failed or stopped, every page file in
\* the output directory has a front-matter content_hash equal to the hash of the
\* body stored after the front matter.
C5_HashAgreement ==
    \A n \in StoreNames :
        s_files[n].exists =>
            /\ EndOfFrontMatter(s_files[n].text) > 0
            /\ Len(s_files[n].text) > EndOfFrontMatter(s_files[n].text)
            /\ ExtractHash(s_files[n].text) = ComputeHash(BodyOf(s_files[n].text))

\* a save over an existing page failed after a partial temp write, and the page
\* file that is there holds another body than the failed save's
C5_Witness ==
    /\ s_pc = "raised"
    /\ s_prev.exists
    /\ s_files[s_arg.name].exists
    /\ BodyOf(s_files[s_arg.name].text) # s_arg.body
    /\ BodyOf(s_files[s_arg.name].text) # <<>>

\* C7: at every step of a save, and after it failed or the process stopped, the
\* target holds the complete previous file or the complete new file (the claim as
\* stated; the code deletes the target before the rename).
C7_TargetAtomic ==
    \/ s_files[s_arg.name] = s_prev
    \/ s_files[s_arg.name] = File(s_arg.content)

-----------------------------------------------------------------------------
(* C8, C9, C10 *)

\* the visited set of one uninterrupted run of crawl that starts with the given
\* visited set and queue
RECURSIVE CrawlRun(_, _, _)
CrawlRun(visited, q, maxp) ==
    IF q = <<>> \/ Cardinality(visited) >= maxp THEN visited
    ELSE LET page == Head(q)
         IN IF page \in visited \/ ~IsValidUrl(page) \/ ~FetchPage(page)
              THEN CrawlRun(visited, Tail(q), maxp)
              ELSE CrawlRun(visited \cup {page},
                            DiscoverLinks(Tail(q), visited \cup {page}, LinksOf(page)), maxp)

\* C8: when a crawl that was interrupted or killed and started again completes, the
\* URLs visited over the runs are those a single uninterrupted run visits, apart from
\* URLs discovered after the last checkpoint (the claim as stated; the code loses the
\* URL in flight at an interrupt).
C8_Resumable ==
    (c_pc = "done" /\ c_run > 1) =>
        LET full == CrawlRun({}, <<StartUrl>>, c_max)
        IN /\ c_ever \subseteq full
           /\ (full \cap c_disc) \subseteq c_ever

\* C9: a stop at any point of save_state leaves crawler_state.json a complete
\* snapshot, the previous or the new one, and load_state never meets a malformed
\* file (the claim as stated; the code truncates the file and then writes it).
C9_CheckpointAtomic ==
    /\ c_pc = "dead" => c_file.kind # "torn"
    /\ c_pc # "crashed"

\* C10: when crawl exits on an interrupt or an error, a checkpoint was written and
\* the URL whose request was in flight is in its visited set or still in its queue
\* (the claim as stated; the code pops the URL before the request).
C10_InflightAccounted ==
    c_pc = "exited" =>
        /\ c_file.kind = "ok"
        /\ c_inflight \subseteq (c_file.visited \cup QueueSet(c_file.queue))

-----------------------------------------------------------------------------
(* C2, C6 *)

\* the robots policy the checker holds for the host denies the URL
Denied(u) == w_robots = "rules" /\ ~RpCanFetch(u)

IsPrefix(s, t) == Len(s) <= Len(t) /\ SubSeq(t, 1, Len(s)) = s

\* C2: a URL that the robots policy of the host denies is never requested, neither
\* as the URL dequeued nor as the target of a redirect that session.get follows,
\* and storage.save never runs for it; for the URL dequeued, the robots check comes
\* before the rate-limiter wait, which comes before the fetch (the claim as stated;
\* the target of a redirect is requested without a robots check).
C2_RobotsGate ==
    /\ \A u \in w_requested \cup w_followed : ~Denied(u)
    /\ s_pc \in {"check", "open", "write", "unlink", "rename", "cleanup"} => ~Denied(s_arg.url)
    /\ IsPrefix(w_trace, <<"robots", "wait", "fetch">>)
    /\ w_pc = "wait" => w_trace = <<"robots">>
    /\ w_pc = "fetch" => w_trace = <<"robots", "wait">>
    /\ w_pc \in {"saving", "counted", "failed", "discover"}
          => w_trace = <<"robots", "wait", "fetch">>

\* checked apart: the URLs that _process_url is called with pass the robots check
\* before they are requested, and the check, the wait and the fetch come in order
C2_DequeuedGate ==
    /\ \A u \in w_requested : ~Denied(u)
    /\ s_pc \in {"check", "open", "write", "unlink", "rename", "cleanup"} => ~Denied(s_arg.url)
    /\ IsPrefix(w_trace, <<"robots", "wait", "fetch">>)
    /\ w_pc = "wait" => w_trace = <<"robots">>
    /\ w_pc = "fetch" => w_trace = <<"robots", "wait">>
    /\ w_pc \in {"saving", "counted", "failed", "discover"}
          => w_trace = <<"robots", "wait", "fetch">>

\* a denied URL was dequeued and skipped after the robots check, and an allowed URL
\* of the same host was requested
C2_DeniedSkipped ==
    /\ w_pc = "get"
    /\ Denied(w_item.url)
    /\ w_trace = <<"robots">>
    /\ UrlRoot \in w_requested
    /\ UrlAB \in w_requested

\* C6: a run after a run over the unchanged site, neither with a failed page, an error or
\* an interrupt and both with the same robots answer, writes no page file: pages_saved is 0 and every page
\* crawled is counted in pages_skipped (the claim as stated; two URLs that share a
\* file name overwrite each other in every run).
C6_IdempotentRecrawl ==
    (/\ w_pc = "done"
     /\ w_run > 1
     /\ w_first.failed = 0 /\ w_first.errors = 0
     /\ ~w_first.interrupted /\ ~w_interrupted
     /\ w_stats.failed = 0 /\ w_stats.errors = 0
     /\ w_first.robots = w_robots)
    => /\ w_stats.saved = 0
       /\ w_stats.skipped = w_stats.crawled

-----------------------------------------------------------------------------
(* C11 *)

\* C11: every frontier item has depth <= max_depth, and the URL that _process_url
\* is working on (robots check, wait, fetch, save, counts, link harvest) has depth
\* <= max_depth.
C11_DepthBound ==
    /\ \A i \in 1..Len(q_queue) : q_queue[i].depth <= MaxDepth
    /\ w_pc \in {"robots", "wait", "fetch", "saving", "counted", "failed", "discover"}
          => w_item.depth <= MaxDepth

\* a page at depth max_depth was fetched and saved, its links were not harvested,
\* and the crawl ended
C11_Witness ==
    /\ w_pc = "done"
    /\ w_item.depth = MaxDepth
    /\ w_stats.crawled > 1
    /\ w_requested # {}

-----------------------------------------------------------------------------
(* C12 *)

\* C12: the pages crawled never exceed max_pages, and no fetch is started once
\* max_pages pages have been crawled.
C12_PageCap ==
    /\ Cardinality(c_visited) <= c_max
    /\ c_pc = "fetch" => Cardinality(c_visited) < c_max

\* the crawl ended at the cap with URLs left in the queue
C12_Witness ==
    /\ c_pc = "done"
    /\ c_q # <<>>
    /\ Cardinality(c_visited) = c_max

-----------------------------------------------------------------------------
(* C13 *)

\* C13: a failure while one page is processed is counted in pages_failed and added
\* to stats.errors (once _process_url is past the two statements, in a crawl that
\* no interrupt ended, errors holds one message for every failed page), and the
\* crawl goes on: unless it is interrupted it ends only with an empty frontier (the
\* claim as stated; a failure of the link harvest ends the crawl and is not counted).
C13_FailuresLocal ==
    /\ (w_pc = "done" /\ ~w_interrupted) => q_queue = <<>>
    /\ (w_pc # "failed" /\ ~w_interrupted) => w_stats.errors = w_stats.failed

-----------------------------------------------------------------------------
(* C14, C15, C16 *)

FourAnswers == SubSeq(h_script, 1, 4)

\* C14: against a server that answers 503 three times and then 200, WebCrawler's
\* session.get returns the page with max_retries = 3 and fails with max_retries = 2.
C14_RetryThenGiveUp ==
    (/\ h_backend = "session"
     /\ h_pc = "done"
     /\ FourAnswers = <<"503", "503", "503", "html">>)
    => /\ h_max = 3 => h_result = Fetched("html", FALSE) /\ h_sent = 4
       /\ h_max = 2 => h_result.failed /\ h_sent = 3

C14_Witness ==
    /\ h_backend = "session"
    /\ h_pc = "done"
    /\ FourAnswers = <<"503", "503", "503", "html">>
    /\ h_max = 3
    /\ h_result = Fetched("html", FALSE)

\* C15: _fetch_page sends at most max_retries requests, sends another request only
\* after a transport error or a status of 429, 500, 502, 503, 504, and sends exactly
\* one when the answer is 404, 403 or 410 (the claim as stated; the code also retries
\* after every other error status).
C15_FetchPageRetries ==
    h_backend = "fetch_page" =>
        /\ h_sent <= h_max
        /\ \A i \in 1..(h_sent - 1) : h_script[i] = "timeout" \/ h_script[i] \in StatusForcelist
        /\ (h_pc = "done" /\ h_script[1] \in NoRetryStatus) => h_sent = 1

\* C16: a response that is not text/html is followed by no other request for the URL,
\* gives no page, and the page is not recorded as failed (the claim as stated;
\* _fetch_page logs it as a failed fetch and returns what it returns for a failure).
C16_NonHtmlSkipped ==
    \A i \in 1..h_sent :
        h_script[i] = "pdf" =>
            /\ i = h_sent
            /\ h_pc = "done" => ~h_result.failed /\ h_result.ret # "html"

-----------------------------------------------------------------------------
(* C17 *)

\* the source_url of the front matter of a page file
SourceUrlOf(text) == text[CHOOSE i \in 1..Len(text) : text[i].text = "source_url"].url

\* C17: two URLs requested in a run with distinct canonical forms have distinct file
\* names, and a save never replaces the page file of another canonical URL (the
\* claim as stated; url_to_filename is not injective).
C17_DistinctFiles ==
    /\ \A u, v \in w_requested :
          NormalizeUrl(u) # NormalizeUrl(v) => UrlToFilename(u) # UrlToFilename(v)
    /\ (s_pc \in {"unlink", "rename"} /\ s_prev.exists)
          => NormalizeUrl(SourceUrlOf(s_prev.text)) = NormalizeUrl(s_arg.url)

\* the names url_to_filename gives when it cuts the slug: for http://e.c/a/b/c and
\* for http://e.c/a/b/c?x=1 with max_length 8 (the slug, 9 long, is cut to
\* slug[:-1]), and for http://e.c/p?y=2&x=1 with max_length 4 (slug[:-5])
CutNameABC == UrlToFilenameWithin(UrlABC, 8)
CutNameABCQuery == UrlToFilenameWithin([UrlABC EXCEPT !.query = << <<<<"x">>, <<"1">>>> >>], 8)
CutNamePyx == UrlToFilenameWithin(UrlPyx, 4)

\* checked apart on url_to_filename: the names of two URLs whose slug is longer than
\* max_length and that differ in the query only share the cut slug and differ in
\* the digest of the URL
C17_CutNamesDiffer ==
    /\ CutNameABC = <<"e", "_", "c", "_", "a", "_", "b", "_", "_", "3", "0", "9", "d", "4", "6", "2", "d">>
    /\ CutNameABCQuery = <<"e", "_", "c", "_", "a", "_", "b", "_", "_", "e", "3", "7", "d", "2", "4", "c", "c">>
    /\ CutNamePyx = <<"c", "5", "2", "7", "3", "b", "d", "d">>

-----------------------------------------------------------------------------
(* C18 *)

\* C18: a URL that was popped from the queue in this run is never in the queue again
\* (the claim as stated; a URL whose fetch gave no HTML is in neither visited nor q,
\* and discover_links appends it again).
C18_ConsumedOnce == \A u \in QueueSet(c_q) : u \notin c_popped

-----------------------------------------------------------------------------
(* C19, C20 *)

\* C19: every two successive HTTP requests of the crawler to the host, the
\* robots.txt request included, are at least the rate limit apart (the claim as
\* stated; the robots.txt request is sent without the rate limiter and is not
\* recorded by it).
C19_PoliteAllTraffic ==
    \A i \in 2..Len(w_reqs) : w_reqs[i] - w_reqs[i - 1] >= DelayOf(HostName(HostEC))

\* C20: when the robots.txt request got a status other than 200 or a transport
\* error, None is cached, every URL passes the robots check, and _process_url goes on
\* to the rate limiter; only an interrupt or a crawl-level error ends the crawl with
\* URLs left in the frontier.
C20_RobotsUnavailableAllows ==
    w_answer \in {"404", "error"} =>
        /\ w_robots = "none"
        /\ w_trace = <<"robots">> => (w_pc = "wait" \/ w_interrupted)
        /\ w_pc # "done" \/ q_queue = <<>> \/ w_stats.errors > w_stats.failed
             \/ w_interrupted

\* in a second run the robots.txt request met a transport error, and a URL that the
\* rules of the site disallow passed the robots check and was fetched
C20_Witness ==
    /\ w_answer = "error"
    /\ UrlPyx \in w_requested
    /\ w_run = 2

-----------------------------------------------------------------------------
(* C21 *)

NoRepeat(q) == \A i, j \in 1..Len(q) : q[i] = q[j] => i = j

SourceUrls(recs) == [i \in 1..Len(recs) |-> recs[i].source_url]

\* C21: once the LinkExtractor has started, links.json holds at most one record for
\* a source_url and no list of a record repeats a value; a save for a source_url
\* that has a record replaces it (the number of records stays), and a save for a new
\* source_url adds one record.
C21_LinkInventoryUnique ==
    l_pc = "ready" =>
        /\ l_file.ok => NoRepeat(SourceUrls(l_file.recs))
        /\ l_file.ok => \A i \in 1..Len(l_file.recs) : NoRepeat(l_file.recs[i].links)
        /\ NoRepeat(SourceUrls(l_all))
        /\ l_last.op = "save" =>
              Len(l_all) = IF InSeq(SourceUrls(l_last.before), l_last.url)
                             THEN Len(l_last.before) ELSE Len(l_last.before) + 1

\* links.json held two records of one page with a repeated link; after the start-up
\* a save for that page replaced its record
C21_Witness ==
    /\ l_pc = "ready"
    /\ l_last.op = "save"
    /\ l_last.url = "u1"
    /\ Len(l_last.before) = 1
    /\ l_last.before[1].source_url = "u1"
    /\ l_file = LinksFile(l_all)
    /\ Len(l_all) = 1
    /\ l_all[1].links = <<"b", "a">>

-----------------------------------------------------------------------------
(* C22 *)

\* the harvest policy on the URL as the frontier holds it
HarvestPolicy(u) ==
    /\ IsValidHttpUrl(u)
    /\ LowerStr(u.netloc) = LowerStr(UrlRoot.netloc)
    /\ GetUrlExtension(u) \in AllowedExtensions
    /\ \A p \in ExcludedPatterns : ~Contains(UrlString(u), p)

\* C22: every URL that the link harvest added to the frontier (depth above 0) is an
\* http(s) URL with a host, on the host of base_url, with an allowed extension or
\* none and with no excluded pattern in it, and every URL requested is on the host of
\* base_url (the claim as stated; the patterns are looked for in normalize_url of the
\* link and the link itself is added).
C22_HarvestPolicy ==
    /\ \A i \in 1..Len(q_queue) : q_queue[i].depth > 0 => HarvestPolicy(q_queue[i].url)
    /\ \A u \in w_requested : LowerStr(u.netloc) = LowerStr(UrlRoot.netloc)

-----------------------------------------------------------------------------
(* C23 *)

\* C23: the source_url of the front matter of every page file is canonical:
\* normalize_url gives it back unchanged (the claim as stated; the frontier holds the
\* URL as it was given or found, and save writes that URL).
C23_SourceUrlCanonical ==
    \A name \in DOMAIN s_files :
        (s_files[name].exists /\ \E i \in 1..Len(s_files[name].text) :
                                    s_files[name].text[i].text = "source_url")
        => NormalizeUrlString(UrlString(SourceUrlOf(s_files[name].text)))
              = UrlString(SourceUrlOf(s_files[name].text))

-----------------------------------------------------------------------------
(* C24 *)

-----------------------------------------------------------------------------
(* C25 *)

\* C25: when the crawl ends uninterrupted with the frontier empty, every URL that was dequeued is
\* counted in exactly one of pages_saved, pages_skipped and pages_failed: the three
\* add up to the number of URLs the frontier has seen (the claim as stated; a URL
\* that robots.txt denies or that is not HTML is counted nowhere).
C25_EveryUrlCounted ==
    (w_pc = "done" /\ q_queue = <<>> /\ ~w_interrupted)
        => w_stats.saved + w_stats.skipped + w_stats.failed = Cardinality(q_seen)

-----------------------------------------------------------------------------
(* C26 *)

\* C26: at no time are more than concurrency fetches in progress; no URL of the list
\* is fetched more than once; and when the fetch_many call has ended, every URL of
\* the list was fetched once and has its one result, in the order of the list (the
\* claim as stated; an exception that leaves fetch ends the call with no result for
\* any URL).
C26_FetchManyBounded ==
    /\ Cardinality({i \in 1..Len(f_urls) : f_pc[i] = "fetching"}) <= f_k
    /\ \A i \in 1..Len(f_urls) : f_fetched[i] <= 1
    /\ (f_ret.returned \/ f_ret.raised) =>
          /\ Len(f_ret.results) = Len(f_urls)
          /\ \A i \in 1..Len(f_urls) :
                /\ f_fetched[i] = 1
                /\ f_ret.results[i].url = f_urls[i]
                /\ f_ret.results[i].result \in {"page", "error"}

\* what holds of fetch_many: the bound on the fetches in progress, no URL fetched
\* twice, and a returned list that has the one result of every URL
C26_BoundedAndReturned ==
    /\ Cardinality({i \in 1..Len(f_urls) : f_pc[i] = "fetching"}) <= f_k
    /\ \A i \in 1..Len(f_urls) : f_fetched[i] <= 1
    /\ f_ret.returned =>
          /\ Len(f_ret.results) = Len(f_urls)
          /\ \A i \in 1..Len(f_urls) :
                /\ f_fetched[i] = 1
                /\ f_ret.results[i].url = f_urls[i]
                /\ f_ret.results[i].result \in {"page", "error"}

-----------------------------------------------------------------------------
(* C27 *)

\* C27: normalize_url(normalize_url(u)) = normalize_url(u) (the claim as stated; a
\* path whose parameters are followed by a slash is parsed differently once the
\* slash is stripped).
C27_NormalizeIdempotent == Len(n_out) = 2 => n_out[2] = n_out[1]

-----------------------------------------------------------------------------
(* C28 *)

\* C28: is_same_domain(u, v) is true exactly when normalize_url(u) and
\* normalize_url(v) have the same host (the claim as stated; is_same_domain compares
\* the netloc, default port included).
C28_SameDomainCanonical ==
    n_same \in {"yes", "no"} =>
        (n_same = "yes") <=> (UrlParse(NormalizeUrlString(n_u)).netloc
                                = UrlParse(NormalizeUrlString(n_v)).netloc)

-----------------------------------------------------------------------------
(* C29 *)

\* C29: a save that returned without an error returned False and left the page
\* file as it was, crawl_timestamp included, when it was not forced and the file
\* existed with the content_hash of the new body; in every other case it returned
\* True and the page file holds the new body and its hash.
C29_SkipUnchanged ==
    s_pc = "returned" =>
        IF /\ ~s_arg.force
           /\ s_prev.exists
           /\ ExtractHash(s_prev.text) = ComputeHash(s_arg.body)
          THEN /\ s_ret = FALSE
               /\ s_files[s_arg.name] = s_prev
          ELSE /\ s_ret = TRUE
               /\ s_files[s_arg.name].exists
               /\ BodyOf(s_files[s_arg.name].text) = s_arg.body
               /\ ExtractHash(s_files[s_arg.name].text) = ComputeHash(s_arg.body)

\* a page file that was written twice was saved again with the body it holds: the
\* save returned False and the file is as it was
C29_Witness ==
    /\ s_pc = "returned"
    /\ s_ret = FALSE
    /\ ~s_arg.force
    /\ s_prev.exists
    /\ StampOf(s_prev) = 0
    /\ BodyOf(s_prev.text) = s_arg.body
    /\ s_files[s_arg.name] = s_prev

-----------------------------------------------------------------------------
(* C30 *)

\* C30: once a save of the crawl has returned or raised, the output directory holds
\* no .tmp file for the page; a save raises only out of its handler, which has
\* removed the .tmp file; and when the save raised, _process_url counts the page as
\* failed (pages_failed, then the message in errors), counts it neither as crawled,
\* saved nor skipped, harvests no link, and the crawl, unless it is interrupted, goes
\* on to the next item of the queue.
C30_FailClosed ==
    /\ [](s_pc \in {"returned", "raised"} => ~s_tmp[s_arg.name].exists)
    /\ [][(s_pc # "raised" /\ s_pc' = "raised") => s_pc = "cleanup"]_vars
    /\ [][(w_pc = "saving" /\ s_pc = "raised" /\ w_pc' # "saving" /\ ~w_interrupted')
            => /\ w_stats' = [w_stats EXCEPT !.failed = @ + 1]
               /\ w_pc' = "failed"
               /\ q_queue' = q_queue
               /\ s_files' = s_files]_vars
    /\ [][(w_pc = "failed" /\ w_pc' # "failed" /\ ~w_interrupted')
            => /\ w_stats' = [w_stats EXCEPT !.errors = @ + 1]
               /\ w_pc' = "get"
               /\ q_queue' = q_queue
               /\ s_files' = s_files]_vars

\* the save of a page raised after its .tmp file was written in part, the page is
\* counted as failed, no .tmp file is left and the crawl is at the next queue item
C30_Witness ==
    /\ s_pc = "raised"
    /\ w_pc = "get"
    /\ w_item.url = s_arg.url
    /\ w_stats.failed = 1
    /\ w_stats.crawled >= 1
    /\ q_queue # <<>>
    /\ \A n \in StoreNames : ~s_tmp[n].exists

-----------------------------------------------------------------------------
(* C31 *)

\* the states of a method in which the caller holds the lock
LockedSteps == {"compute", "unlock", "record", "return", "raise", "op_body"}

\* C31: under every interleaving of wait, set_domain_delay, get_delay,
\* record_request and time_until_allowed by two threads, with sleeps that end or
\* raise: a caller that sleeps does not hold the lock; a caller that has returned or
\* raised does not hold it; the holder of the lock is always at a step it can take
\* without waiting for anything, so that no state is a deadlock; while one caller
\* sleeps, the other caller, waiting to enter, finds the lock free; and the call of
\* a thread that is not interrupted completes (the claim as stated; an interrupt
\* of the main thread after release() and outside the sleep makes the with block
\* release a lock the thread does not hold).
C31_LockDiscipline ==
    /\ r_lock \in {0} \cup Threads
    /\ \A t \in Threads :
          /\ r_pc[t] \in {"sleeping", "interrupted"} => r_lock # t
          /\ r_pc[t] = "idle" => r_lock # t
          /\ r_lock = t <=> r_pc[t] \in LockedSteps
          /\ \A u \in Threads \ {t} :
                (r_pc[t] = "sleeping" /\ r_pc[u] \in {"acquire", "op_acquire"})
                    => r_lock = 0 /\ ENABLED (RAcquire(u) \/ ROpAcquire(u))
          /\ t # MainThread => r_loc[t].out = "none"
    /\ (\E t \in Threads : r_pc[t] # "idle")
          => \/ \E t \in Threads :
                   ENABLED (RAcquire(t) \/ RCompute(t) \/ RUnlockSleep(t)
                            \/ RWakeAcquire(t) \/ RRecord(t) \/ RReturn(t)
                            \/ RReacquire(t) \/ RRaise(t) \/ ROpAcquire(t) \/ ROpBody(t))
             \/ \A t \in Threads :
                   r_pc[t] # "idle" => r_pc[t] = "sleeping" /\ r_now < r_loc[t].wake

\* what holds with the interrupts: a caller that sleeps, and a caller whose call
\* has ended, is not the thread that took the lock; and in every state with a call
\* in progress some thread can step or all callers are asleep with time left
C31_ReleasedInSleep ==
    /\ r_lock \in {0} \cup Threads
    /\ \A t \in Threads :
          r_pc[t] \in {"sleeping", "interrupted", "idle", "acquire", "op_acquire"} => r_lock # t
    /\ (\E t \in Threads : r_pc[t] # "idle")
          => \/ \E t \in Threads :
                   ENABLED (RAcquire(t) \/ RCompute(t) \/ RUnlockSleep(t)
                            \/ RWakeAcquire(t) \/ RRecord(t) \/ RReturn(t)
                            \/ RReacquire(t) \/ RRaise(t) \/ ROpAcquire(t) \/ ROpBody(t))
             \/ \A t \in Threads :
                   r_pc[t] # "idle" => r_pc[t] = "sleeping" /\ r_now < r_loc[t].wake

\* the lock is taken by a thread while another thread is inside a with block
C31_BothInside ==
    \E t, u \in Threads :
        /\ t # u
        /\ r_lock = t
        /\ r_pc[t] \in LockedSteps
        /\ r_pc[u] \in LockedSteps

\* the wait of a thread that was not interrupted ended with the RuntimeError of
\* release()
C31_WaitRaisedRuntimeError ==
    \E t \in Threads \ {MainThread} :
        /\ r_pc[t] = "idle"
        /\ r_loc[t].op = "wait"
        /\ r_loc[t].out = "RuntimeError"

-----------------------------------------------------------------------------
(* C32 *)

\* the robots.txt requests made for the host of u, whatever its spelling
RequestsFor(h) == {i \in 1..Len(p_reqs) : CanonicalKey(p_reqs[i]) = h}

\* C32: as long as the cache was not cleared (no crawl calls clear_cache), for every
\* host, whatever the spelling of the host in the URLs asked about, at most one
\* robots.txt request is made.
C32_OneFetchPerHost ==
    p_clears = 0
        => \A u \in RobotsUrls : Cardinality(RequestsFor(CanonicalKey(u))) <= 1

-----------------------------------------------------------------------------
(* C33 *)

\* C33: once the robots.txt of the host is loaded (it declares the crawl-delay
\* RobotsCrawlDelay) and a page has been requested, the rate limiter's delay for the
\* host is that crawl-delay, and the page requests of the run are at least the
\* crawl-delay apart.
C33_CrawlDelaySeeded ==
    (w_robots = "rules" /\ Len(w_reqs) >= 2) =>
        /\ DelayOf(HostName(HostEC)) = CrawlDelayOf(w_robots)
        /\ \A i \in 3..Len(w_reqs) : w_reqs[i] - w_reqs[i - 1] >= CrawlDelayOf(w_robots)

-----------------------------------------------------------------------------
(* C34 *)

\* C34: when the write of the periodic checkpoint has failed, the next step of the
\* crawl (the process is not killed) is back in the loop, with the queue and the
\* visited set as they were: the failure does not end the crawl.
C34_CheckpointFailureContinues ==
    [][(c_pc = "save_error" /\ c_pc' # "dead")
         => (c_pc' = "loop" /\ c_after' = "loop" /\ c_q' = c_q /\ c_visited' = c_visited)]_vars

-----------------------------------------------------------------------------
(* C35 *)

\* the files of a directory that hold the content c
Holding(disk, c) == {n \in DownloadNames : disk[n].content = c}

\* C35: after a pass of deduplicate_files, every content that downloads/ held
\* before the pass is held by exactly one file, a file that held it before, unchanged,
\* and no file with that content was created earlier; no other file appeared; the
\* pass returned the number of files it removed; and a pass made right after a pass
\* removed nothing (the claim as stated; the files are ordered by st_ctime, which a
\* chmod or a rename moves, and a file that cannot be read or unlinked stays).
C35_DeduplicateKeepsOldest ==
    g_pass >= 1 =>
        /\ \A c \in Contents :
              /\ Holding(g_before, c) # {} => Cardinality(Holding(g_disk, c)) = 1
              /\ \A n \in Holding(g_disk, c) :
                    /\ g_disk[n] = g_before[n]
                    /\ \A m \in Holding(g_before, c) : g_before[n].born <= g_before[m].born
              /\ Cardinality(Holding(g_before, c)) = 1 => Holding(g_disk, c) = Holding(g_before, c)
        /\ g_ret = Cardinality(Present(g_before)) - Cardinality(Present(g_disk))
        /\ g_files = {LowerStr(n) : n \in Present(g_disk)}
        /\ g_pass = 2 => (g_ret = 0 /\ g_disk = g_before)

\* what holds of every pass: no file appears or changes, a file with unique
\* content stays, every content held before is still held, the file kept is one
\* that no kept or removed file of its content preceded in st_ctime unless that
\* one could not be read, and the return value is the number of files removed
C35_EveryPass ==
    g_pass >= 1 =>
        /\ \A n \in Present(g_disk) : g_disk[n] = g_before[n]
        /\ \A c \in Contents :
              /\ Holding(g_before, c) # {} => Holding(g_disk, c) # {}
              /\ Cardinality(Holding(g_before, c)) = 1 => Holding(g_disk, c) = Holding(g_before, c)
        /\ g_ret = Cardinality(Present(g_before)) - Cardinality(Present(g_disk))
        /\ g_files = {LowerStr(n) : n \in Present(g_disk)}

\* what holds of a pass that logged no error: one file per content is left, one
\* that no file of its content preceded in st_ctime, and a pass over a directory
\* without duplicates removes nothing
C35_PassWithoutError ==
    (g_pass >= 1 /\ g_errs = 0) =>
        /\ \A c \in Contents :
              /\ Holding(g_before, c) # {} => Cardinality(Holding(g_disk, c)) = 1
              /\ \A n \in Holding(g_disk, c) :
                    \A m \in Holding(g_before, c) : g_before[n].ctime <= g_before[m].ctime
        /\ (\A c \in Contents : Cardinality(Holding(g_before, c)) <= 1) =>
              (g_ret = 0 /\ g_disk = g_before)

-----------------------------------------------------------------------------
(* C36 *)

\* C36: every fetch eventually returns a result, whatever the page does: also on a
\* page whose scrollHeight grows on every scroll step.
C36_FetchReturns == <>(b_pc = "done" /\ b_result \notin {"none", "raised"})

\* checked apart: whether fetch ends at all, with a result or by raising
C36_FetchEnds == <>(b_pc = "done")

-----------------------------------------------------------------------------
(* C37 *)

\* the frontier is in breadth-first order: depths do not decrease along the queue,
\* start no lower than the depth of the item last dequeued and end no higher than
\* one above it
BreadthFirst ==
    /\ \A i, j \in 1..Len(q_queue) : i < j => q_queue[i].depth <= q_queue[j].depth
    /\ \A i \in 1..Len(q_queue) :
          /\ w_item.depth <= q_queue[i].depth
          /\ q_queue[i].depth <= w_item.depth + 1

\* C37: the frontier is dequeued in breadth-first order, so that a URL is enqueued at
\* its least link distance from the seed, and every URL that was enqueued has been
\* dequeued when a crawl that was not interrupted returns: nothing reachable within
\* max_depth is left unprocessed.
C37_CrawlComplete ==
    /\ BreadthFirst
    /\ (w_pc = "done" /\ ~w_interrupted) => \A u \in q_seen : \A i \in 1..Len(q_queue) : NormalizeUrl(q_queue[i].url) # u

-----------------------------------------------------------------------------
(* C38 *)

\* C38: every crawl terminates: from every state of a crawl, crawl eventually
\* returns, with the frontier empty unless it was interrupted; and no URL is fetched
\* twice in one crawl.
C38_CrawlTerminates ==
    /\ (w_pc # "done") ~> (w_pc = "done" /\ (q_queue = <<>> \/ w_interrupted))
    /\ [](w_pc = "fetch"
            => \A v \in w_requested : NormalizeUrl(v) # NormalizeUrl(w_item.url))

-----------------------------------------------------------------------------
(* C39 *)

\* the states in which _process_url is between the two statements of one count:
\* pages_crawled += 1 and pages_saved or pages_skipped += 1 (lines 269-275),
\* pages_failed += 1 and errors.append (lines 246-247 and 279-280)
BetweenCounts == w_pc \in {"counted", "failed"}

StatsConsistent ==
    /\ w_stats.crawled = w_stats.saved + w_stats.skipped
    /\ w_stats.errors >= w_stats.failed
    /\ w_stats.crawled + w_stats.failed <= Cardinality(w_requested)

\* C39: in every state of a crawl outside the two statements of one count, the
\* stats that crawl returns included, pages_crawled = pages_saved + pages_skipped
\* and errors holds at least pages_failed messages; pages_crawled + pages_failed is
\* at most the number of URLs the crawl has requested; and no step of _process_url
\* adds more than one to pages_crawled + pages_failed (the claim as stated; a
\* KeyboardInterrupt between the two statements of a count ends the crawl with
\* stats that hold one count without the other).
C39_StatsConsistent ==
    /\ [](~BetweenCounts => StatsConsistent)
    /\ [][w_pc \notin {"off", "init", "done"}
            => /\ w_stats'.crawled + w_stats'.failed >= w_stats.crawled + w_stats.failed
               /\ w_stats'.crawled + w_stats'.failed
                    <= w_stats.crawled + w_stats.failed + 1]_vars

\* checked apart: the same for the crawls that no KeyboardInterrupt has ended
C39_UninterruptedConsistent ==
    /\ []((~BetweenCounts /\ ~w_interrupted) => StatsConsistent)
    /\ [][w_pc \notin {"off", "init", "done"}
            => /\ w_stats'.crawled + w_stats'.failed >= w_stats.crawled + w_stats.failed
               /\ w_stats'.crawled + w_stats'.failed
                    <= w_stats.crawled + w_stats.failed + 1]_vars

\* a crawl that no interrupt ended has counted a saved page and a failed page,
\* every requested URL being counted once
C39_CountedAll ==
    /\ w_pc = "done"
    /\ ~w_interrupted
    /\ w_stats.saved >= 1
    /\ w_stats.failed >= 1
    /\ w_stats.crawled + w_stats.failed = Cardinality(w_requested)

-----------------------------------------------------------------------------
(* C40 *)

\* the last download_file call sent its request and returned None: the server
\* answered with an error status or the body broke off
DownloadFailed ==
    /\ d_last.op = "download"
    /\ d_last.sent
    /\ d_last.url \notin d_downloaded

\* C40: after a download_file call that sent its request and failed, downloads/
\* holds no file of that name; a call that sent its request and returned a path
\* left the whole file; and the next call for the same URL after a failed one sends
\* the request again.
C40_FailedDownloadLeavesNoFile ==
    /\ [](DownloadFailed => d_disk[CleanFilename(d_last.url.name)] = "none")
    /\ []((d_last.op = "download" /\ d_last.sent /\ d_last.url \in d_downloaded)
            => d_disk[CleanFilename(d_last.url.name)] = "new")
    /\ [][(DownloadFailed /\ d_n' = d_n + 1 /\ d_last'.url = d_last.url)
            => d_last'.sent]_vars

====
